---------------------------- MODULE Spec2Model ----------------------------
(***************************************************************************)
(* A model of GitDB (git-as-a-db): the transaction engine (create, read,   *)
(* update, delete, deleteCollection, bulkOperation over a whole-file       *)
(* snapshot), its read cache, the file lock of LockManager and the         *)
(* GitHub snapshot medium.                                                 *)
(*                                                                         *)
(* Values.  A JavaScript object is a function from its own keys to values; *)
(* every value is tagged with its typeof.  Id(n) is the n-th id string     *)
(* (Id(100+k) the k-th UUID of crypto.randomUUID()), Time(t) the ISO       *)
(* string of clock tick t.                                                 *)
(***************************************************************************)
EXTENDS Integers, Sequences, FiniteSets, TLC

VARIABLES
    store,      \* the data file: the Database that its JSON text denotes
    cache,      \* GitDB.cache: cacheKey -> [data, timestamp]
    now,        \* Date.now(), in clock ticks
    nextId,     \* how many UUIDs generateId() has handed out
    nops,       \* operations started so far (bounds the run)
    last,       \* the last operation: its call, the snapshot before it, its result
    created,    \* the last successful create, while no later operation wrote
    lockFile,   \* the lock file: NoLock, or what it holds and who wrote it
    pc,         \* where each concurrent call of a mutating operation stands
    kind,       \* how each call's operation uses the lock
    retries,    \* acquireLock's `retries` of each call
    acquired,   \* whether the call's acquireLock returned true
    thrown,     \* how the call ends: "ok" or the error it throws
    attempts,   \* the writeFile attempts of the call's acquireLock that failed
    head,       \* GitHub: the blob sha of the data file on the branch
    remote,     \* GitHub: the content of the data file on the branch
    wpc,        \* where each GitHub writer (a process of its own) stands
    wdata,      \* the data each writer read and mutated
    wsha,       \* the sha each writer's getFileInfo returned
    wread,      \* the sha of the content each writer read
    wthrown,    \* how each writer's write ended
    files,      \* the directory of LocalStorage: file name -> inode
    inodes,     \* the content of each inode: the chunks written so far
    fpc,        \* where LocalStorage.write stands
    fver,       \* the snapshot that LocalStorage.write is writing
    fbefore,    \* the content of the data file when the write started
    fthrown,    \* how the write ended
    rpc,        \* where LocalStorage.read stands
    rfd,        \* the inode that the read's fs.readFile has open
    rbuf,       \* the chunks the read has got so far
    qlast,      \* the last query operation: its call and its result
    log,        \* GitHub: the commits of the data file, oldest first
    tpc,        \* where a mutating operation on the GitHub medium stands
    tdata,      \* the text that the mutating operation writes
    tsha,       \* the sha that its write's getFileInfo returned
    vpc,        \* where HistoryManager.revertToCommit stands
    vtarget,    \* the commit it reverts to
    vcontent,   \* fileData.content
    vsha,       \* the sha that its write's getFileInfo returned
    vthrown,    \* how the revert ended
    vlog,       \* the commits when the revert started
    hlast,      \* the last getRecordHistory: its call and its result
    tlast,      \* the last getCollectionTimeline: its call and its result
    config,     \* the constructor options: format and encryptionKey
    cin,        \* the value that a codec or decrypt is applied to
    ctext,      \* the text that the codec's serialize returned
    cout,       \* what the codec's parse, or decrypt, gave
    cpc,        \* which of them has been applied
    slast,      \* the last getHistoryStats: the commits it saw and its result
    judged,     \* the lock file that each call's acquireLock judged stale
    inflight    \* a read that awaits, or has got, the data of readDataFile

dataVars == <<store, cache, nextId, last, created>>

lockVars == <<lockFile, pc, kind, retries, acquired, thrown, attempts>>

ghVars == <<head, remote, wpc, wdata, wsha, wread, wthrown>>

fsVars == <<files, inodes, fpc, fver, fbefore, fthrown, rpc, rfd, rbuf>>

queryVars == <<qlast>>

histVars == <<log, tpc, tdata, tsha, vpc, vtarget, vcontent, vsha, vthrown, vlog,
              hlast, tlast>>

codecVars == <<config, cin, ctext, cout, cpc>>

lateVars == <<slast, judged, inflight>>

\* The variables of the parts of the model below the GitHub medium
moreVars == <<fsVars, queryVars, histVars, codecVars, lateVars>>

vars == <<dataVars, now, nops, lockVars, ghVars, moreVars>>

----------------------------------------------------------------------------
(* Bounds of the model *)

MaxOps == 4        \* operations per run (a batch counts as its length)
MaxBulk == 2       \* operations per bulkOperation batch
MaxTime == 1       \* clock ticks per run
MaxCalls == 2      \* calls of mutating operations per concurrent run
NProcs == 2        \* concurrent calls sharing one lock file
NWriters == 2      \* processes writing to one GitHub file
MaxWrites == 3     \* operations of the GitHub writers per run
MaxChunks == 2     \* chunks in which fs.writeFile writes a snapshot's text
MaxQueries == 3    \* operations before and with a query operation
MaxCommits == 3    \* writes and reverts on the GitHub medium per run
MaxRows == 2       \* records per collection of a codec's input
MaxDays == 2       \* days that pass in a run of the history statistics

(* Configuration (constructor options) *)

\* A clock tick is a time longer than every timeout of the configuration, so
\* in ticks: a cached result is fresh during the tick it was stored in, and a
\* lock is stale from the tick after the one it was written in.

CacheTimeout == 1  \* options.cacheTimeout

LockTimeout == 0   \* options.lockTimeout

MaxRetries == 3    \* options.maxRetries

TicksPerDay == 2   \* a day (1000 * 60 * 60 * 24 ms) in clock ticks

StatsLimit == 100  \* getFileHistory(100) in getHistoryStats

RequiredFields == {"id"}

FieldTypes == [age |-> "number"]

----------------------------------------------------------------------------
(* JavaScript values and objects *)

Num(n) == [t |-> "number", n |-> n]

Str(s) == [t |-> "string", s |-> s]

Id(n) == [t |-> "string", id |-> n]

\* new Date().toISOString() at clock tick t
Time(t) == [t |-> "string", iso |-> t]

Undefined == [t |-> "undefined"]

\* A predicate function, given by the values it returns true for
Fn(accepts) == [t |-> "function", accepts |-> accepts]

TypeOf(v) == v.t

EmptyObj == [k \in {} |-> 0]

Has(o, k) == k \in DOMAIN o

\* { ...a, ...b }
Spread(a, b) ==
    [k \in DOMAIN a \cup DOMAIN b |-> IF k \in DOMAIN b THEN b[k] ELSE a[k]]

\* delete o[k]
Without(o, k) == [x \in DOMAIN o \ {k} |-> o[x]]

\* o[k], undefined when o has no own key k
Get(o, k) == IF Has(o, k) THEN o[k] ELSE Undefined

Null == [t |-> "null"]

\* An array that is handled as a value of its own (a Database's collections
\* are sequences)
Arr(items) == [t |-> "array", of |-> items]

\* Array.isArray(data)
isArray(data) == Has(data, "t") /\ data.t = "array"

\* The numbers that are no integers: NaN, Infinity and -Infinity
NaN == [t |-> "number", nan |-> TRUE]

Infinity == [t |-> "number", inf |-> 1]

NegInfinity == [t |-> "number", inf |-> -1]

\* !value
falsy(v) == v \in {Undefined, Null, Num(0), Str(""), NaN}

\* String(value): the text of a value (in a CSV cell, an XML element, a key)
toString(v) == IF TypeOf(v) = "string" THEN v ELSE [t |-> "string", text |-> v]

\* parseFloat(value): the number that the text of the value is the numeral of
parseFloat(v) ==
    IF TypeOf(v) = "number" THEN v
    ELSE IF TypeOf(v) = "string" /\ Has(v, "text") /\ TypeOf(v.text) = "number"
    THEN v.text
    ELSE NaN

\* value || 0
orZero(v) == IF falsy(v) THEN Num(0) ELSE v

\* a + b of two numbers
plus(a, b) == IF Has(a, "n") /\ Has(b, "n") THEN Num(a.n + b.n) ELSE NaN

\* a / b: the quotient of two integers as a fraction; NaN when b is no
\* number (undefined), an infinity when b is 0
divide(a, b) ==
    IF ~(Has(a, "n") /\ TypeOf(b) = "number" /\ Has(b, "n")) THEN NaN
    ELSE IF b.n = 0
    THEN (IF a.n = 0 THEN NaN ELSE IF a.n > 0 THEN Infinity ELSE NegInfinity)
    ELSE [t |-> "number", num |-> a.n, den |-> b.n]

\* Math.min(a, b) of an integer or an infinity and an integer
mathMin(a, b) ==
    IF a = Infinity THEN b
    ELSE IF a = NegInfinity THEN a
    ELSE IF a.n < b.n THEN a ELSE b

\* Math.max(a, b) of an integer or an infinity and an integer
mathMax(a, b) ==
    IF a = NegInfinity THEN b
    ELSE IF a = Infinity THEN a
    ELSE IF a.n > b.n THEN a ELSE b

\* arr.findIndex(item => item.id === id); 0 stands for -1
RECURSIVE findIndexFrom(_, _, _)
findIndexFrom(arr, id, i) ==
    IF i > Len(arr) THEN 0
    ELSE IF Get(arr[i], "id") = id THEN i
    ELSE findIndexFrom(arr, id, i + 1)

findIndex(arr, id) == findIndexFrom(arr, id, 1)

\* arr.splice(i): the array loses the element and all that follow it
spliceRest(arr, i) == SubSeq(arr, 1, i - 1)

\* arr.splice(i, 1)
splice(arr, i) == SubSeq(arr, 1, i - 1) \o SubSeq(arr, i + 1, Len(arr))

Range(s) == {s[i] : i \in DOMAIN s}

Min(a, b) == IF a < b THEN a ELSE b


----------------------------------------------------------------------------
(* The codec and the data file (format 'json', no encryption key) *)

\* An item as JSON.stringify writes it: keys whose value is undefined are dropped
stringifyItem(item) ==
    [k \in {x \in DOMAIN item : item[x] # Undefined} |-> item[k]]

\* JSONFormat.serialize: the Database that the written text denotes
serialize(data) ==
    [c \in DOMAIN data |-> [i \in 1..Len(data[c]) |-> stringifyItem(data[c][i])]]

\* JSONFormat.parse of a text that serialize wrote
parse(text) == [c \in DOMAIN text |-> [i \in 1..Len(text[c]) |-> text[c][i]]]

\* GitDB.readDataFile: storage.read(), then formatManager.parse
readDataFile == parse(store)

\* GitDB.writeDataFile: the new content of the data file (storage.write)
writeDataFile(data) == serialize(data)

\* GitDB.generateId: the n-th UUID
generateId(n) == Id(100 + n)

\* ValidationManager.validateItem: TRUE when it returns, FALSE when it throws
validateItem(item) ==
    /\ \A f \in RequiredFields : Has(item, f)
    /\ \A f \in DOMAIN FieldTypes :
          Has(item, f) => TypeOf(item[f]) = FieldTypes[f]

\* GitDB.clearCache(collection): the cache without the keys that start with
\* `${collection}-` (no collection name of the model is a prefix of another)
clearCache(ch, collection) ==
    [k \in {x \in DOMAIN ch : x[1] # collection} |-> ch[k]]

\* JSON.stringify(query): properties whose value is a function are dropped
stringifyQuery(query) ==
    [k \in {x \in DOMAIN query : TypeOf(query[x]) # "function"} |-> query[k]]

\* cacheKey = `${collection}-${JSON.stringify(query)}`
cacheKey(collection, query) == <<collection, stringifyQuery(query)>>

----------------------------------------------------------------------------
(* The record an operation leaves in `last` *)

Done(op, collection, id, arg, outcome, ret, writes, trace) ==
    [op |-> op, collection |-> collection, id |-> id, arg |-> arg,
     pre |-> store, outcome |-> outcome, ret |-> ret, writes |-> writes,
     trace |-> trace]

NoId == Undefined

\* No read is between its readDataFile and its cache.set
NoRead == [reading |-> FALSE]

----------------------------------------------------------------------------
(* CREATE *)

\* data[collection] after `if (!data[collection]) data[collection] = []`
ensureCollection(data, collection) ==
    IF Has(data, collection) THEN data
    ELSE [c \in DOMAIN data \cup {collection} |->
            IF c = collection THEN <<>> ELSE data[c]]

\* data[collection].push(item)
push(data, collection, item) ==
    [data EXCEPT ![collection] = Append(@, item)]

\* The item create stores: id generated when absent, both timestamps stamped
createItem(item, t, n) ==
    Spread(item, [id |-> IF Get(item, "id") # Undefined THEN item.id
                         ELSE generateId(n),
                  createdAt |-> Time(t), updatedAt |-> Time(t)])

create(collection, item) ==
    /\ nops < MaxOps
    /\ LET data == ensureCollection(readDataFile, collection)
           newItem == createItem(item, now, nextId)
       IN  /\ nextId' = IF Get(item, "id") # Undefined THEN nextId ELSE nextId + 1
           /\ IF validateItem(newItem)
              THEN /\ store' = writeDataFile(push(data, collection, newItem))
                   /\ last' = Done("create", collection, newItem.id, item,
                                   "ok", newItem, 1, <<>>)
                   /\ created' = [collection |-> collection, item |-> newItem]
              ELSE /\ store' = store
                   /\ last' = Done("create", collection, newItem.id, item,
                                   "ValidationError", Undefined, 0, <<>>)
                   /\ created' = created
    /\ nops' = nops + 1
    /\ UNCHANGED <<cache, now, lockVars, ghVars, moreVars>>

----------------------------------------------------------------------------
(* READ *)

\* Object.entries(query).every(...) for one item
matches(item, query) ==
    \A k \in DOMAIN query :
        IF TypeOf(query[k]) = "function"
        THEN Get(item, k) \in query[k].accepts
        ELSE Get(item, k) = query[k]

\* items.filter(...)
RECURSIVE filterItems(_, _)
filterItems(items, query) ==
    IF items = <<>> THEN <<>>
    ELSE (IF matches(Head(items), query) THEN <<Head(items)>> ELSE <<>>)
         \o filterItems(Tail(items), query)

cacheFresh(key) ==
    Has(cache, key) /\ now - cache[key].timestamp < CacheTimeout

readFrom(data, collection, query) ==
    /\ nops < MaxOps
    /\ LET key == cacheKey(collection, query)
       IN  IF cacheFresh(key)
           THEN /\ cache' = cache
                /\ last' = Done("read", collection, NoId, query, "ok",
                                cache[key].data, 0, <<>>)
           ELSE IF ~Has(data, collection)
           THEN /\ cache' = cache
                /\ last' = Done("read", collection, NoId, query, "ok",
                                <<>>, 0, <<>>)
           ELSE LET items == filterItems(data[collection], query)
                IN  /\ cache' = [k \in DOMAIN cache \cup {key} |->
                                   IF k = key
                                   THEN [data |-> items, timestamp |-> now]
                                   ELSE cache[k]]
                    /\ last' = Done("read", collection, NoId, query, "ok",
                                    items, 0, <<>>)
    /\ nops' = nops + 1
    /\ UNCHANGED <<store, now, nextId, created, lockVars, ghVars, moreVars>>

\* GitDB.read(collection, query) on the data file of LocalStorage
read(collection, query) == readFrom(readDataFile, collection, query)



\* A read that misses the cache: const data = await this.readDataFile(); the
\* call goes on when the data has come
read_readDataFile(collection, query) ==
    /\ nops < MaxOps
    /\ inflight = NoRead
    /\ ~cacheFresh(cacheKey(collection, query))
    /\ inflight' = [reading |-> TRUE, collection |-> collection,
                    query |-> query, data |-> readDataFile]
    /\ nops' = nops + 1
    /\ UNCHANGED <<dataVars, now, lockVars, ghVars, fsVars, queryVars,
                   histVars, codecVars, slast, judged>>

\* The read goes on with the data it got: the filter, this.cache.set(cacheKey,
\* { data: items, timestamp: Date.now() }), return items
read_cacheSet ==
    /\ inflight # NoRead
    /\ cache' = IF ~Has(inflight.data, inflight.collection) THEN cache
                ELSE LET key == cacheKey(inflight.collection, inflight.query)
                         items == filterItems(
                                    inflight.data[inflight.collection],
                                    inflight.query)
                     IN  [k \in DOMAIN cache \cup {key} |->
                            IF k = key
                            THEN [data |-> items, timestamp |-> now]
                            ELSE cache[k]]
    /\ inflight' = NoRead
    /\ UNCHANGED <<store, nextId, last, created, now, nops, lockVars, ghVars,
                   fsVars, queryVars, histVars, codecVars, slast, judged>>
----------------------------------------------------------------------------
(* UPDATE, DELETE, DELETE COLLECTION *)

\* updatedItem without the two lines that restore id and createdAt
updatedItemUnprotected(originalItem, updates, t) ==
    Spread(Spread(originalItem, updates), [updatedAt |-> Time(t)])

\* { ...originalItem, ...updates, id: originalItem.id,
\*   createdAt: originalItem.createdAt, updatedAt: new Date().toISOString() }
updatedItem(originalItem, updates, t) ==
    Spread(Spread(originalItem, updates),
           [id |-> Get(originalItem, "id"),
            createdAt |-> Get(originalItem, "createdAt"),
            updatedAt |-> Time(t)])

\* The outcome of update's checks on the snapshot it read
updateOutcome(data, collection, id, updates, t) ==
    IF ~Has(data, collection) THEN "NotFound"
    ELSE IF findIndex(data[collection], id) = 0 THEN "NotFound"
    ELSE IF ~validateItem(updatedItem(
                data[collection][findIndex(data[collection], id)], updates, t))
    THEN "ValidationError"
    ELSE "ok"

update(collection, id, updates) ==
    /\ nops < MaxOps
    /\ LET data == readDataFile
           outcome == updateOutcome(data, collection, id, updates, now)
       IN  IF outcome = "ok"
           THEN LET itemIndex == findIndex(data[collection], id)
                    item == updatedItem(data[collection][itemIndex], updates, now)
                IN  /\ store' = writeDataFile(
                           [data EXCEPT ![collection][itemIndex] = item])
                    /\ cache' = clearCache(cache, collection)
                    /\ created' = Undefined
                    /\ last' = Done("update", collection, id, updates, "ok",
                                    item, 1, <<>>)
           ELSE /\ UNCHANGED <<store, cache, created>>
                /\ last' = Done("update", collection, id, updates, outcome,
                                Undefined, 0, <<>>)
    /\ nops' = nops + 1
    /\ UNCHANGED <<now, nextId, lockVars, ghVars, moreVars>>

\* The outcome of delete's checks on the snapshot it read
deleteOutcome(data, collection, id) ==
    IF ~Has(data, collection) THEN "NotFound"
    ELSE IF findIndex(data[collection], id) = 0 THEN "NotFound"
    ELSE "ok"

delete(collection, id) ==
    /\ nops < MaxOps
    /\ LET data == readDataFile
           outcome == deleteOutcome(data, collection, id)
       IN  IF outcome = "ok"
           THEN LET itemIndex == findIndex(data[collection], id)
                IN  /\ store' = writeDataFile(
                           [data EXCEPT ![collection] = splice(@, itemIndex)])
                    /\ cache' = clearCache(cache, collection)
                    /\ created' = Undefined
                    /\ last' = Done("delete", collection, id, EmptyObj, "ok",
                                    data[collection][itemIndex], 1, <<>>)
           ELSE /\ UNCHANGED <<store, cache, created>>
                /\ last' = Done("delete", collection, id, EmptyObj, outcome,
                                Undefined, 0, <<>>)
    /\ nops' = nops + 1
    /\ UNCHANGED <<now, nextId, lockVars, ghVars, moreVars>>

\* deleteCollection without its check that the collection exists
deleteCollectionUnchecked(data, collection) == "ok"

\* The outcome of deleteCollection's check on the snapshot it read
deleteCollectionOutcome(data, collection) ==
    IF ~Has(data, collection) THEN "NotFound" ELSE "ok"

deleteCollection(collection) ==
    /\ nops < MaxOps
    /\ LET data == readDataFile
           outcome == deleteCollectionOutcome(data, collection)
       IN  IF outcome = "ok"
           THEN /\ store' = writeDataFile(Without(data, collection))
                /\ cache' = clearCache(cache, collection)
                /\ created' = Undefined
                /\ last' = Done("deleteCollection", collection, NoId, EmptyObj,
                                "ok", Get(data, collection), 1, <<>>)
           ELSE /\ UNCHANGED <<store, cache, created>>
                /\ last' = Done("deleteCollection", collection, NoId, EmptyObj,
                                outcome, Undefined, 0, <<>>)
    /\ nops' = nops + 1
    /\ UNCHANGED <<now, nextId, lockVars, ghVars, moreVars>>

----------------------------------------------------------------------------
(* BULK OPERATIONS *)

\* One entry of `results`
Result(type, success, item, error) ==
    [type |-> type, success |-> success, item |-> item, error |-> error]

\* The state of the loop over `operations`: the in-memory data, the results so
\* far, the UUIDs handed out, whether validateItem threw, and (for the
\* properties) the data before each operation
BulkStart(data, n) ==
    [data |-> data, results |-> <<>>, n |-> n, threw |-> FALSE, trace |-> <<data>>]

BulkNext(st, data, result, n) ==
    [data |-> data, results |-> Append(st.results, result), n |-> n,
     threw |-> FALSE, trace |-> Append(st.trace, data)]

\* case 'create'
bulkCreate(st, op, t) ==
    LET data == ensureCollection(st.data, op.collection)
        newItem == createItem(op.item, t, st.n)
        n == IF Get(op.item, "id") # Undefined THEN st.n ELSE st.n + 1
    IN  IF ~validateItem(newItem)
        THEN [st EXCEPT !.threw = TRUE, !.n = n]
        ELSE BulkNext(st, push(data, op.collection, newItem),
                      Result("create", TRUE, newItem, ""), n)

\* case 'update'
bulkUpdate(st, op, t) ==
    IF ~Has(st.data, op.collection)
    THEN BulkNext(st, st.data,
                  Result("update", FALSE, Undefined, "Collection not found"), st.n)
    ELSE LET itemIndex == findIndex(st.data[op.collection], op.id)
         IN  IF itemIndex = 0
             THEN BulkNext(st, st.data,
                      Result("update", FALSE, Undefined, "Item not found"), st.n)
             ELSE LET item == updatedItem(st.data[op.collection][itemIndex],
                                          op.updates, t)
                  IN  IF ~validateItem(item)
                      THEN [st EXCEPT !.threw = TRUE]
                      ELSE BulkNext(st,
                             [st.data EXCEPT ![op.collection][itemIndex] = item],
                             Result("update", TRUE, item, ""), st.n)

\* case 'delete'
bulkDelete(st, op) ==
    IF ~Has(st.data, op.collection)
    THEN BulkNext(st, st.data,
                  Result("delete", FALSE, Undefined, "Collection not found"), st.n)
    ELSE LET deleteIndex == findIndex(st.data[op.collection], op.id)
         IN  IF deleteIndex = 0
             THEN BulkNext(st, st.data,
                      Result("delete", FALSE, Undefined, "Item not found"), st.n)
             ELSE BulkNext(st,
                      [st.data EXCEPT ![op.collection] = splice(@, deleteIndex)],
                      Result("delete", TRUE,
                             st.data[op.collection][deleteIndex], ""), st.n)

\* default:
bulkDefault(st, op) ==
    BulkNext(st, st.data,
             Result(op.type, FALSE, Undefined, "Unknown operation type"), st.n)

\* The body of `for (const operation of operations)`
bulkStep(st, op, t) ==
    CASE op.type = "create" -> bulkCreate(st, op, t)
      [] op.type = "update" -> bulkUpdate(st, op, t)
      [] op.type = "delete" -> bulkDelete(st, op)
      [] OTHER -> bulkDefault(st, op)

\* The loop with `break` for `continue`: it also ends at the first operation
\* that is reported success:false
RECURSIVE bulkLoopBreak(_, _, _, _)
bulkLoopBreak(st, operations, i, t) ==
    IF \/ st.threw
       \/ i > Len(operations)
       \/ (st.results # <<>> /\ ~st.results[Len(st.results)].success)
    THEN st
    ELSE bulkLoopBreak(bulkStep(st, operations[i], t), operations, i + 1, t)

\* The loop: it ends at the first operation whose validateItem throws
RECURSIVE bulkLoop(_, _, _, _)
bulkLoop(st, operations, i, t) ==
    IF st.threw \/ i > Len(operations) THEN st
    ELSE bulkLoop(bulkStep(st, operations[i], t), operations, i + 1, t)

\* affectedCollections.forEach(collection => this.clearCache(collection))
RECURSIVE clearCaches(_, _, _)
clearCaches(ch, operations, i) ==
    IF i > Len(operations) THEN ch
    ELSE clearCaches(clearCache(ch, operations[i].collection), operations, i + 1)

\* The data file were each operation's effect written as it is applied
bulkStoredEach(run) == writeDataFile(run.data)

\* The data file after the batch: written once, after the loop, unless it threw
bulkStored(run) ==
    IF run.threw THEN store ELSE writeDataFile(run.data)

bulkOperation(operations) ==
    /\ nops + Len(operations) <= MaxOps
    /\ LET run == bulkLoop(BulkStart(readDataFile, nextId), operations, 1, now)
       IN  /\ store' = bulkStored(run)
           /\ nextId' = run.n
           /\ IF run.threw
              THEN /\ UNCHANGED <<cache, created>>
                   /\ last' = Done("bulkOperation", "", NoId, operations,
                                   "ValidationError", run.results, 0, run.trace)
              ELSE /\ cache' = clearCaches(cache, operations, 1)
                   /\ created' = Undefined
                   /\ last' = Done("bulkOperation", "", NoId, operations,
                                   "ok", run.results, 1, run.trace)
    /\ nops' = nops + Len(operations)
    /\ UNCHANGED <<now, lockVars, ghVars, moreVars>>

----------------------------------------------------------------------------
(* LockManager, and the mutating operations as concurrent calls.  A call    *)
(* takes one step per await: between two steps the other calls may run.     *)

Procs == 1..NProcs

NoLock == [exists |-> FALSE]

\* The operations whose acquireLock is inside try { } finally { releaseLock }
\* (create, update, delete, deleteCollection, bulkOperation) and import, whose
\* acquireLock precedes the try
Kinds == {"create", "update", "delete", "deleteCollection", "bulkOperation",
          "import"}

\* How an operation uses the lock: the five operations that acquire inside
\* their try share one text, import has its own
lockUse(k) == IF k = "import" THEN "outsideTry" ELSE "insideTry"

\* A call starts: acquireLock's `let retries = 0`
call(p, k) ==
    /\ pc[p] = "idle"
    /\ nops < MaxCalls
    /\ nops' = nops + 1
    /\ pc' = [pc EXCEPT ![p] = "writeFile"]
    /\ kind' = [kind EXCEPT ![p] = lockUse(k)]
    /\ retries' = [retries EXCEPT ![p] = 0]
    /\ acquired' = [acquired EXCEPT ![p] = FALSE]
    /\ thrown' = [thrown EXCEPT ![p] = "none"]
    /\ attempts' = [attempts EXCEPT ![p] = 0]
    /\ UNCHANGED <<lockFile, dataVars, now, ghVars, moreVars>>

\* Where a call goes when acquireLock throws: into the finally block of the
\* operations that acquire inside their try, out of import
afterLockTimeout(use) == IF use = "outsideTry" THEN "done" ELSE "releaseLock"

\* await fs.writeFile(lockPath, Date.now().toString(), { flag: 'wx' })
acquireLock_writeFile(p) ==
    /\ pc[p] = "writeFile"
    /\ IF lockFile = NoLock
       THEN /\ lockFile' = [exists |-> TRUE, nan |-> FALSE, time |-> now,
                            creator |-> p]
            /\ acquired' = [acquired EXCEPT ![p] = TRUE]
            /\ retries' = [retries EXCEPT ![p] = 0]
            /\ attempts' = [attempts EXCEPT ![p] = 0]
            /\ pc' = [pc EXCEPT ![p] = "readDataFile"]
       ELSE /\ pc' = [pc EXCEPT ![p] = "readFile"]
            /\ attempts' = [attempts EXCEPT ![p] = @ + 1]
            /\ UNCHANGED <<lockFile, acquired, retries>>
    /\ UNCHANGED <<kind, thrown, dataVars, now, nops, ghVars, moreVars>>

\* EEXIST: await fs.readFile(lockPath); parseInt; the staleness test; retries++
readFile(p) ==
    /\ pc[p] = "readFile"
    /\ IF lockFile = NoLock
       THEN \* readFile throws ENOENT: the inner catch
            /\ pc' = [pc EXCEPT ![p] = "unlink"]
            /\ UNCHANGED <<retries, thrown, attempts>>
       ELSE IF ~lockFile.nan /\ now - lockFile.time > LockTimeout
       THEN /\ pc' = [pc EXCEPT ![p] = "clearStale"]
            /\ UNCHANGED <<retries, thrown, attempts>>
       ELSE IF retries[p] + 1 < MaxRetries
            THEN /\ retries' = [retries EXCEPT ![p] = @ + 1]
                 /\ pc' = [pc EXCEPT ![p] = "sleep"]
                 /\ UNCHANGED <<thrown, attempts>>
            ELSE \* the loop ends: throw new Error('Failed to acquire lock ...')
                 /\ retries' = [retries EXCEPT ![p] = 0]
                 /\ attempts' = [attempts EXCEPT ![p] = 0]
                 /\ pc' = [pc EXCEPT ![p] = afterLockTimeout(kind[p])]
                 /\ thrown' = [thrown EXCEPT ![p] = "LockTimeout"]
    /\ UNCHANGED <<lockFile, kind, acquired, dataVars, now, nops, ghVars,
                   fsVars, queryVars, histVars, codecVars, slast, inflight>>

acquireLock_readFile(p) == readFile(p) /\ UNCHANGED judged

\* The same step in the runs that keep, for each call, the lock file that its
\* acquireLock judged stale
acquireLock_readFile_judging(p) ==
    /\ readFile(p)
    /\ judged' = IF pc'[p] = "clearStale"
                 THEN [judged EXCEPT ![p] = lockFile] ELSE judged

\* fs.unlink(lockPath), were it to remove the lock file only while it is the
\* one that the caller saw
unlinkSeen(file, seen) == IF file = seen THEN NoLock ELSE file

\* LockManager.releaseLock: fs.unlink(lockPath) removes the lock file that
\* is there, whichever the caller saw
unlink(file, seen) == NoLock

\* The stale lock: await this.releaseLock(); continue
acquireLock_clearStale(p) ==
    /\ pc[p] = "clearStale"
    /\ lockFile' = unlink(lockFile, judged[p])
    /\ pc' = [pc EXCEPT ![p] = "writeFile"]
    /\ UNCHANGED <<kind, retries, acquired, thrown, attempts, dataVars,
                   now, nops, ghVars, moreVars>>

\* The inner catch: try { await fs.unlink(lockPath) } catch {}; continue
acquireLock_unlink(p) ==
    /\ pc[p] = "unlink"
    /\ lockFile' = NoLock
    /\ pc' = [pc EXCEPT ![p] = "writeFile"]
    /\ UNCHANGED <<kind, retries, acquired, thrown, attempts, dataVars,
                   now, nops, ghVars, moreVars>>

\* await this.sleep(this.retryDelay * retries)
acquireLock_sleep(p) ==
    /\ pc[p] = "sleep"
    /\ pc' = [pc EXCEPT ![p] = "writeFile"]
    /\ UNCHANGED <<lockFile, kind, retries, acquired, thrown, attempts,
                   dataVars, now, nops, ghVars, moreVars>>

\* What the operation's body may throw after its read, before its write
BodyErrors(use) ==
    IF use = "outsideTry" THEN {"FormatError"}
    ELSE {"NotFound", "ValidationError"}

\* Where a throwing call would go were releaseLock at the end of the try block
afterThrowNoFinally == "done"

\* Where a call goes when its body throws: catch { throw } finally { releaseLock }
afterThrow == "releaseLock"

\* Where a call goes when its body returns: finally { releaseLock }
afterReturn == "releaseLock"

\* The body up to its write: await this.readDataFile() (import: fs.readFile),
\* then the checks and the mutation in memory
body_readDataFile(p) ==
    /\ pc[p] = "readDataFile"
    /\ \E e \in {"ok", "StorageError"} \cup BodyErrors(kind[p]) :
          IF e = "ok"
          THEN /\ pc' = [pc EXCEPT ![p] = "writeDataFile"]
               /\ UNCHANGED thrown
          ELSE /\ pc' = [pc EXCEPT ![p] = afterThrow]
               /\ thrown' = [thrown EXCEPT ![p] = e]
    /\ UNCHANGED <<lockFile, kind, retries, acquired, attempts, dataVars,
                   now, nops, ghVars, moreVars>>

\* await this.writeDataFile(data, message), then clearCache and return
body_writeDataFile(p) ==
    /\ pc[p] = "writeDataFile"
    /\ \E e \in {"ok", "StorageError"} :
          /\ pc' = [pc EXCEPT ![p] = IF e = "ok" THEN afterReturn ELSE afterThrow]
          /\ thrown' = [thrown EXCEPT ![p] = e]
    /\ UNCHANGED <<lockFile, kind, retries, acquired, attempts, dataVars,
                   now, nops, ghVars, moreVars>>

\* finally { await this.lockManager.releaseLock() }: fs.unlink(lockPath),
\* errors ignored
releaseLock(p) ==
    /\ pc[p] = "releaseLock"
    /\ lockFile' = NoLock
    /\ pc' = [pc EXCEPT ![p] = "done"]
    /\ UNCHANGED <<kind, retries, acquired, thrown, attempts, dataVars,
                   now, nops, ghVars, moreVars>>

\* The call has returned or thrown to its caller: its locals are gone
return(p) ==
    /\ pc[p] = "done"
    /\ pc' = [pc EXCEPT ![p] = "idle"]
    /\ kind' = [kind EXCEPT ![p] = "none"]
    /\ acquired' = [acquired EXCEPT ![p] = FALSE]
    /\ thrown' = [thrown EXCEPT ![p] = "none"]
    /\ judged' = [judged EXCEPT ![p] = NoLock]
    /\ UNCHANGED <<lockFile, retries, attempts, dataVars, now, nops, ghVars,
                   fsVars, queryVars, histVars, codecVars, slast, inflight>>

----------------------------------------------------------------------------
(* GitHubStorage: writers in processes (machines) of their own, which share *)
(* no lock file.  The content of the file is the set of the mutations in it. *)

Writers == 1..NWriters

\* A writer's operation starts: readDataFile (GitHubStorage.read), then its
\* mutation of the data in memory
gh_read(w) ==
    /\ wpc[w] = "idle"
    /\ nops < MaxWrites
    /\ nops' = nops + 1
    /\ wdata' = [wdata EXCEPT ![w] = remote \cup {<<w, nops>>}]
    /\ wread' = [wread EXCEPT ![w] = head]
    /\ wthrown' = [wthrown EXCEPT ![w] = "none"]
    /\ wpc' = [wpc EXCEPT ![w] = "getFileInfo"]
    /\ UNCHANGED <<head, remote, wsha, dataVars, now, lockVars, moreVars>>

\* GitHubStorage.write: const { sha } = await this.getFileInfo()
gh_getFileInfo(w) ==
    /\ wpc[w] = "getFileInfo"
    /\ wsha' = [wsha EXCEPT ![w] = head]
    /\ wpc' = [wpc EXCEPT ![w] = "createOrUpdateFileContents"]
    /\ UNCHANGED <<head, remote, wdata, wread, wthrown, dataVars, now, nops,
                   lockVars, moreVars>>

\* The sha that write passes as the expected version
expectedSha(w) == wsha[w]

\* await this.octokit.repos.createOrUpdateFileContents({ ..., sha }): GitHub
\* commits when sha is the file's current blob sha, and answers 409 otherwise
gh_createOrUpdateFileContents(w) ==
    /\ wpc[w] = "createOrUpdateFileContents"
    /\ IF expectedSha(w) = head
       THEN /\ head' = head + 1
            /\ remote' = wdata[w]
            /\ wthrown' = [wthrown EXCEPT ![w] = "ok"]
       ELSE /\ wthrown' = [wthrown EXCEPT ![w] = "VersionConflict"]
            /\ UNCHANGED <<head, remote>>
    /\ wpc' = [wpc EXCEPT ![w] = "done"]
    /\ UNCHANGED <<wdata, wsha, wread, dataVars, now, nops, lockVars, moreVars>>

\* The writer's operation has returned or thrown
gh_return(w) ==
    /\ wpc[w] = "done"
    /\ wpc' = [wpc EXCEPT ![w] = "idle"]
    /\ UNCHANGED <<head, remote, wdata, wsha, wread, wthrown, dataVars, now,
                   nops, lockVars, moreVars>>

----------------------------------------------------------------------------
(* LocalStorage: the data file on the file system.  fs.writeFile and         *)
(* fs.readFile move a text chunk by chunk; a directory entry names an inode, *)
(* and an open file keeps its inode whatever the directory does.  The text   *)
(* of snapshot v is MaxChunks chunks v.                                      *)

notFs ==
    <<dataVars, now, lockVars, ghVars, queryVars, histVars, codecVars, lateVars>>

Snapshot(v) == [i \in 1..MaxChunks |-> v]

\* The file that a mistaken write would write: the data file itself
writeTargetInPlace == "data"

\* const tempFilePath = `${dataFilePath}.tmp`: the file that write writes
writeTarget == "tmp"

\* LocalStorage.write(data) is called, by the holder of the lock
storage_write ==
    /\ fpc = "idle"
    /\ nops < MaxWrites
    /\ nops' = nops + 1
    /\ fver' = nops + 1
    /\ fbefore' = inodes[files["data"]]
    /\ fthrown' = "none"
    /\ fpc' = "open"
    /\ UNCHANGED <<files, inodes, rpc, rfd, rbuf, notFs>>

\* fs.writeFile(tempFilePath, data) opens the file with flag 'w': an existing
\* file is truncated, a missing one is created; or the open fails
write_open ==
    /\ fpc = "open"
    /\ \/ /\ IF writeTarget \in DOMAIN files
              THEN /\ inodes' = [inodes EXCEPT ![files[writeTarget]] = <<>>]
                   /\ UNCHANGED files
              ELSE /\ inodes' = Append(inodes, <<>>)
                   /\ files' = [x \in DOMAIN files \cup {writeTarget} |->
                                  IF x = writeTarget THEN Len(inodes) + 1
                                  ELSE files[x]]
          /\ fpc' = "chunk"
       \/ /\ fpc' = "catch"
          /\ UNCHANGED <<files, inodes>>
    /\ UNCHANGED <<fver, fbefore, fthrown, rpc, rfd, rbuf, nops, notFs>>

\* fs.writeFile writes the next chunk, or fails (ENOSPC, EIO)
write_chunk ==
    /\ fpc = "chunk"
    /\ \/ /\ inodes' = [inodes EXCEPT ![files[writeTarget]] = Append(@, fver)]
          /\ fpc' = IF Len(inodes[files[writeTarget]]) + 1 = MaxChunks
                    THEN "rename" ELSE "chunk"
       \/ /\ fpc' = "catch"
          /\ UNCHANGED inodes
    /\ UNCHANGED <<files, fver, fbefore, fthrown, rpc, rfd, rbuf, nops, notFs>>

\* await fs.rename(tempFilePath, dataFilePath): the entry of the data file
\* names the inode of the temporary file, in one step; or the rename fails
write_rename ==
    /\ fpc = "rename"
    /\ \/ /\ "tmp" \in DOMAIN files
          /\ files' = [x \in {"data"} |-> files["tmp"]]
          /\ fthrown' = "ok"
          /\ fpc' = "done"
       \/ /\ fpc' = "catch"
          /\ UNCHANGED <<files, fthrown>>
    /\ UNCHANGED <<inodes, fver, fbefore, rpc, rfd, rbuf, nops, notFs>>

\* catch: try { await fs.unlink(tempFilePath) } catch {}; throw new Error(...)
write_catch ==
    /\ fpc = "catch"
    /\ files' = [x \in DOMAIN files \ {"tmp"} |-> files[x]]
    /\ fthrown' = "StorageError"
    /\ fpc' = "done"
    /\ UNCHANGED <<inodes, fver, fbefore, rpc, rfd, rbuf, nops, notFs>>

\* write has returned true or thrown
write_return ==
    /\ fpc = "done"
    /\ fpc' = "idle"
    /\ UNCHANGED <<files, inodes, fver, fbefore, fthrown, rpc, rfd, rbuf, nops,
                   notFs>>

\* LocalStorage.read(): fs.readFile(dataFilePath) opens the data file; a
\* missing file (ENOENT) is read as '{}', the text of snapshot 0
storage_read ==
    /\ rpc = "idle"
    /\ nops < MaxWrites
    /\ nops' = nops + 1
    /\ IF "data" \in DOMAIN files
       THEN /\ rfd' = files["data"]
            /\ rbuf' = <<>>
            /\ rpc' = "chunk"
       ELSE /\ rfd' = 0
            /\ rbuf' = Snapshot(0)
            /\ rpc' = "done"
    /\ UNCHANGED <<files, inodes, fpc, fver, fbefore, fthrown, notFs>>

\* fs.readFile reads the next chunk of the open file, up to its end
read_chunk ==
    /\ rpc = "chunk"
    /\ IF Len(rbuf) < Len(inodes[rfd])
       THEN /\ rbuf' = Append(rbuf, inodes[rfd][Len(rbuf) + 1])
            /\ UNCHANGED rpc
       ELSE /\ rpc' = "done"
            /\ UNCHANGED rbuf
    /\ UNCHANGED <<files, inodes, fpc, fver, fbefore, fthrown, rfd, nops, notFs>>

\* read has returned the text
read_return ==
    /\ rpc = "done"
    /\ rpc' = "idle"
    /\ rfd' = 0
    /\ rbuf' = <<>>
    /\ UNCHANGED <<files, inodes, fpc, fver, fbefore, fthrown, nops, notFs>>

----------------------------------------------------------------------------
(* The query operations.  Each starts with `await this.read(collection)`,    *)
(* whose array is the one that the cache entry of the collection holds: an   *)
(* operation that changes that array in place changes the cache entry.       *)

notQuery ==
    <<store, nextId, last, created, now, lockVars, ghVars, fsVars, histVars,
      codecVars, lateVars>>

\* JavaScript's a < b on the values of the model: numbers by value; a
\* comparison with undefined is false
lessThan(a, b) ==
    TypeOf(a) = "number" /\ TypeOf(b) = "number" /\ a.n < b.n

\* The result of `await this.read(collection)`: the array, the cache after
\* the read, and whether the cache holds that very array
readInto(ch, collection) ==
    LET key == cacheKey(collection, EmptyObj)
        data == readDataFile
    IN  IF Has(ch, key) /\ now - ch[key].timestamp < CacheTimeout
        THEN [items |-> ch[key].data, cache |-> ch, aliased |-> TRUE]
        ELSE IF ~Has(data, collection)
        THEN [items |-> <<>>, cache |-> ch, aliased |-> FALSE]
        ELSE [items |-> data[collection],
              cache |-> [k \in DOMAIN ch \cup {key} |->
                           IF k = key
                           THEN [data |-> data[collection], timestamp |-> now]
                           ELSE ch[k]],
              aliased |-> TRUE]

\* The comparator of GitDB.sort(collection, sortBy, order) for a key
sortCompare(a, b, sortBy, order) ==
    LET aVal == Get(a, sortBy)
        bVal == Get(b, sortBy)
    IN  IF lessThan(aVal, bVal) THEN (IF order = "desc" THEN 1 ELSE -1)
        ELSE IF lessThan(bVal, aVal) THEN (IF order = "desc" THEN -1 ELSE 1)
        ELSE 0

\* The comparator of aggregate's sort stage: Object.entries(stage.sort)
RECURSIVE stageCompare(_, _, _, _)
stageCompare(a, b, entries, i) ==
    IF i > Len(entries) THEN 0
    ELSE LET aVal == Get(a, entries[i][1])
             bVal == Get(b, entries[i][1])
         IN  IF lessThan(aVal, bVal)
             THEN (IF entries[i][2] = 1 THEN -1 ELSE 1)
             ELSE IF lessThan(bVal, aVal)
             THEN (IF entries[i][2] = 1 THEN 1 ELSE -1)
             ELSE stageCompare(a, b, entries, i + 1)

\* The comparator that a sort is called with
compare(cmp, a, b) ==
    IF cmp.by = "key" THEN sortCompare(a, b, cmp.sortBy, cmp.order)
    ELSE stageCompare(a, b, cmp.sort, 1)

\* Array.prototype.sort is stable: x goes before the first element that the
\* comparator puts after it
RECURSIVE insertSorted(_, _, _)
insertSorted(sorted, x, cmp) ==
    IF sorted = <<>> THEN <<x>>
    ELSE IF compare(cmp, x, Head(sorted)) < 0 THEN <<x>> \o sorted
    ELSE <<Head(sorted)>> \o insertSorted(Tail(sorted), x, cmp)

RECURSIVE sortFrom(_, _, _)
sortFrom(items, sorted, cmp) ==
    IF items = <<>> THEN sorted
    ELSE sortFrom(Tail(items), insertSorted(sorted, Head(items), cmp), cmp)

\* items.sort(comparator): the array's elements in their new order
sortItems(items, cmp) == sortFrom(items, <<>>, cmp)

\* items.sort(...) on the array of a read: the array is sorted in place, and
\* with it the cache entry that holds it
sortInPlace(q, collection, cmp) ==
    LET sorted == sortItems(q.items, cmp)
    IN  [items |-> sorted,
         cache |-> IF q.aliased
                   THEN [q.cache EXCEPT
                           ![cacheKey(collection, EmptyObj)].data = sorted]
                   ELSE q.cache,
         aliased |-> q.aliased]

\* An array method that returns a new array (filter, slice, map)
newArray(q, items) == [items |-> items, cache |-> q.cache, aliased |-> FALSE]

\* items.slice(offset, offset + n)
slice(items, offset, n) ==
    SubSeq(items, offset + 1, Min(offset + n, Len(items)))

evaluateOperator(value, operator, compareValue) ==
    CASE operator \in {"eq", "="} -> value = compareValue
      [] operator \in {"ne", "!="} -> value # compareValue
      [] operator \in {"gt", ">"} -> lessThan(compareValue, value)
      [] operator \in {"lt", "<"} -> lessThan(value, compareValue)
      [] operator \in {"gte", ">="} ->
            \/ lessThan(compareValue, value)
            \/ TypeOf(value) \in {"number", "string"} /\ value = compareValue
      [] operator \in {"lte", "<="} ->
            \/ lessThan(value, compareValue)
            \/ TypeOf(value) \in {"number", "string"} /\ value = compareValue
      [] OTHER -> FALSE

\* evaluateWhereClause for a conditions object: a condition is a value, or an
\* object with an operator
evaluateWhereClause(item, conditions) ==
    \A key \in DOMAIN conditions :
        LET condition == conditions[key]
        IN  IF TypeOf(condition) = "object" /\ Has(condition, "operator")
            THEN evaluateOperator(Get(item, key), condition.operator,
                                  condition.value)
            ELSE Get(item, key) = condition

RECURSIVE filterWhere(_, _)
filterWhere(items, conditions) ==
    IF items = <<>> THEN <<>>
    ELSE (IF evaluateWhereClause(Head(items), conditions)
          THEN <<Head(items)>> ELSE <<>>)
         \o filterWhere(Tail(items), conditions)

\* The projection of select onto options.fields
selected(item, fields) ==
    [f \in Range(fields) \cap DOMAIN item |-> item[f]]

\* The record a query operation leaves in `qlast`: its call, what it
\* returned, and what read(collection) would have returned in its place
QDone(op, collection, arg, ret) ==
    [op |-> op, collection |-> collection, arg |-> arg, ret |-> ret,
     before |-> readInto(cache, collection).items,
     seq |-> nops + 1, at |-> now]

\* The end of a query operation that leaves the cache as q.cache
queryReturns(op, collection, arg, q, ret) ==
    /\ nops < MaxQueries
    /\ nops' = nops + 1
    /\ cache' = q.cache
    /\ qlast' = QDone(op, collection, arg, ret)
    /\ UNCHANGED notQuery

\* GitDB.sort(collection, sortBy, order) with a key
sort(collection, sortBy, order) ==
    LET cmp == [by |-> "key", sortBy |-> sortBy, order |-> order]
        q == sortInPlace(readInto(cache, collection), collection, cmp)
    IN  queryReturns("sort", collection, cmp, q, q.items)

\* GitDB.where(collection, conditions)
where(collection, conditions) ==
    LET q == readInto(cache, collection)
    IN  queryReturns("where", collection, conditions, q,
                     filterWhere(q.items, conditions))

\* GitDB.limit(collection, limit, offset)
limit(collection, n, offset) ==
    LET q == readInto(cache, collection)
    IN  queryReturns("limit", collection, <<n, offset>>, q,
                     slice(q.items, offset, n))

\* GitDB.count(collection)
count(collection) ==
    LET q == readInto(cache, collection)
    IN  queryReturns("count", collection, EmptyObj, q, Len(q.items))

\* const [key, order] = Array.isArray(options.orderBy) ? options.orderBy
\*                                                     : [options.orderBy, 'asc']
orderByPair(orderBy) ==
    IF orderBy.isArray THEN <<orderBy.key, orderBy.order>>
    ELSE <<orderBy.key, "asc">>

\* select: the WHERE clause
selectWhere(q, options) ==
    IF Has(options, "where")
    THEN newArray(q, filterWhere(q.items, options.where))
    ELSE q

\* select: the ORDER BY clause, `items = await this.sort(collection, key, order)`
selectOrderBy(q, collection, options) ==
    IF Has(options, "orderBy")
    THEN LET pair == orderByPair(options.orderBy)
         IN  sortInPlace(readInto(q.cache, collection), collection,
                         [by |-> "key", sortBy |-> pair[1], order |-> pair[2]])
    ELSE q

\* select: the LIMIT clause (a limit of 0 is no limit)
selectLimit(q, options) ==
    IF Has(options, "limit") /\ options.limit # 0
    THEN newArray(q, slice(q.items,
                           IF Has(options, "offset") THEN options.offset ELSE 0,
                           options.limit))
    ELSE q

\* select: the projection onto options.fields
selectFields(q, options) ==
    IF Has(options, "fields")
    THEN newArray(q, [i \in 1..Len(q.items) |->
                        selected(q.items[i], options.fields)])
    ELSE q

\* GitDB.select(collection, options)
select(collection, options) ==
    LET q == selectFields(
               selectLimit(
                 selectOrderBy(
                   selectWhere(readInto(cache, collection), options),
                   collection, options),
                 options),
               options)
    IN  queryReturns("select", collection, options, q, q.items)

\* aggregateGroup: the key of the item's group, the texts of the values of
\* the groupBy fields ('null' for a falsy one), each after a '_'
RECURSIVE groupKey(_, _, _)
groupKey(item, groupBy, i) ==
    IF i > Len(groupBy) THEN <<>>
    ELSE LET text == IF falsy(Get(item, groupBy[i])) THEN Str("null")
                     ELSE toString(item[groupBy[i]])
         IN  <<Str("_")>>
             \o (IF Has(text, "joined") THEN text.joined ELSE <<text>>)
             \o groupKey(item, groupBy, i + 1)

\* The value an accumulator starts from
initialValue(type) ==
    CASE type \in {"sum", "avg"} -> Num(0)
      [] type = "min" -> Infinity
      [] type = "max" -> NegInfinity
      [] OTHER -> Arr(<<>>)

\* if (!groups[groupKey][agg.name]): whether the accumulator is (again) set to
\* the value it starts from
startsAccumulator(group, name) == falsy(Get(group, name))

\* The body of stage.aggregations.forEach for one item and one accumulator
accumulate(group, agg, item) ==
    LET value == orZero(parseFloat(Get(item, agg.field)))
        current == IF startsAccumulator(group, agg.name)
                   THEN initialValue(agg.type) ELSE group[agg.name]
        next == CASE agg.type \in {"sum", "avg"} -> plus(current, value)
                  [] agg.type = "min" -> mathMin(current, value)
                  [] agg.type = "max" -> mathMax(current, value)
                  [] agg.type = "count" ->
                        plus(IF isArray(current) THEN Num(0) ELSE current, Num(1))
                  [] agg.type = "push" ->
                        Arr(Append(current.of, Get(item, agg.field)))
                  [] OTHER -> current
    IN  Spread(group, [n \in {agg.name} |-> next])

RECURSIVE accumulateAll(_, _, _, _)
accumulateAll(group, aggregations, item, i) ==
    IF i > Len(aggregations) THEN group
    ELSE accumulateAll(accumulate(group, aggregations[i], item),
                       aggregations, item, i + 1)

\* The place of the group with the key in `groups`, 0 when it has none
RECURSIVE groupIndex(_, _, _)
groupIndex(groups, key, i) ==
    IF i > Len(groups) THEN 0
    ELSE IF groups[i].key = key THEN i
    ELSE groupIndex(groups, key, i + 1)

\* The body of items.forEach: the item's group, made when it is the first of
\* it, takes the item into its accumulators
groupItem(groups, item, stage) ==
    LET key == groupKey(item, stage.groupBy, 1)
        at == groupIndex(groups, key, 1)
        group == IF at # 0 THEN groups[at].group
                 ELSE [f \in Range(stage.groupBy) |-> Get(item, f)]
        taken == [key |-> key,
                  group |-> accumulateAll(group, stage.aggregations, item, 1)]
    IN  IF at # 0 THEN [groups EXCEPT ![at] = taken] ELSE Append(groups, taken)

RECURSIVE groupItems(_, _, _, _)
groupItems(groups, items, stage, i) ==
    IF i > Len(items) THEN groups
    ELSE groupItems(groupItem(groups, items[i], stage), items, stage, i + 1)

\* Calculate averages: group[agg.name] = group[agg.name] / group.count
RECURSIVE averages(_, _, _)
averages(group, aggregations, i) ==
    IF i > Len(aggregations) THEN group
    ELSE LET agg == aggregations[i]
         IN  averages(
               IF agg.type = "avg" /\ Get(group, agg.name) # Undefined
               THEN [group EXCEPT ![agg.name] = divide(@, Get(group, "count"))]
               ELSE group,
               aggregations, i + 1)

\* GitDB.aggregateGroup(items, stage): Object.values(groups)
aggregateGroup(items, stage) ==
    LET groups == groupItems(<<>>, items, stage, 1)
    IN  [g \in 1..Len(groups) |->
            averages(groups[g].group, stage.aggregations, 1)]

\* One stage of aggregate's pipeline
aggregateStage(q, collection, stage) ==
    CASE stage.type = "match" ->
            newArray(q, filterWhere(q.items, stage.conditions))
      [] stage.type = "sort" ->
            sortInPlace(q, collection, [by |-> "stage", sort |-> stage.sort])
      [] stage.type = "limit" ->
            newArray(q, slice(q.items, 0, stage.limit))
      [] stage.type = "group" ->
            newArray(q, aggregateGroup(q.items, stage))
      [] OTHER -> q

RECURSIVE aggregateStages(_, _, _, _)
aggregateStages(q, collection, pipeline, i) ==
    IF i > Len(pipeline) THEN q
    ELSE aggregateStages(aggregateStage(q, collection, pipeline[i]),
                         collection, pipeline, i + 1)

\* GitDB.aggregate(collection, pipeline), with match, sort, limit and group
\* stages
aggregate(collection, pipeline) ==
    LET q == aggregateStages(readInto(cache, collection), collection,
                             pipeline, 1)
    IN  queryReturns("aggregate", collection, pipeline, q, q.items)

\* items.reduce of sum: sum + (parseFloat(item[key]) || 0)
RECURSIVE sumItems(_, _, _, _)
sumItems(items, key, acc, i) ==
    IF i > Len(items) THEN acc
    ELSE sumItems(items, key,
                  plus(acc, orZero(parseFloat(Get(items[i], key)))), i + 1)

\* GitDB.sum(collection, key)
sum(collection, key) ==
    LET q == readInto(cache, collection)
    IN  queryReturns("sum", collection, key, q,
                     sumItems(q.items, key, Num(0), 1))

\* GitDB.average(collection, key): 0 for no item, else the sum, of the read
\* that this.sum does, by items.length
average(collection, key) ==
    LET q == readInto(cache, collection)
        s == readInto(q.cache, collection)
    IN  queryReturns("average", collection, key,
                     IF Len(q.items) = 0 THEN q ELSE s,
                     IF Len(q.items) = 0 THEN Num(0)
                     ELSE divide(sumItems(s.items, key, Num(0), 1),
                                 Num(Len(q.items))))

\* The reducer of min: a value that is NaN is passed over
minStep(least, item, key) ==
    LET value == parseFloat(Get(item, key))
    IN  IF value = NaN THEN least
        ELSE IF least = Null \/ value.n < least.n THEN value ELSE least

\* The reducer of max
maxStep(most, item, key) ==
    LET value == parseFloat(Get(item, key))
    IN  IF value = NaN THEN most
        ELSE IF most = Null \/ value.n > most.n THEN value ELSE most

RECURSIVE minItems(_, _, _, _)
minItems(items, key, acc, i) ==
    IF i > Len(items) THEN acc
    ELSE minItems(items, key, minStep(acc, items[i], key), i + 1)

RECURSIVE maxItems(_, _, _, _)
maxItems(items, key, acc, i) ==
    IF i > Len(items) THEN acc
    ELSE maxItems(items, key, maxStep(acc, items[i], key), i + 1)

\* GitDB.min(collection, key): null for no item
min(collection, key) ==
    LET q == readInto(cache, collection)
    IN  queryReturns("min", collection, key, q,
                     IF Len(q.items) = 0 THEN Null
                     ELSE minItems(q.items, key, Null, 1))

\* GitDB.max(collection, key)
max(collection, key) ==
    LET q == readInto(cache, collection)
    IN  queryReturns("max", collection, key, q,
                     IF Len(q.items) = 0 THEN Null
                     ELSE maxItems(q.items, key, Null, 1))

\* items2.filter(item2 => item1[joinKey1] === item2[joinKey2])
RECURSIVE matching(_, _, _, _)
matching(items, key, value, i) ==
    IF i > Len(items) THEN <<>>
    ELSE (IF Get(items[i], key) = value THEN <<items[i]>> ELSE <<>>)
         \o matching(items, key, value, i + 1)

\* The rows that join pushes for item1
joinRows(item1, items2, collection2, joinKey1, joinKey2, joinType) ==
    LET matchingItems2 == matching(items2, joinKey2, Get(item1, joinKey1), 1)
    IN  IF Len(matchingItems2) > 0
        THEN [j \in 1..Len(matchingItems2) |->
                Spread(item1, [c \in {collection2} |-> matchingItems2[j]])]
        ELSE IF joinType = "left"
        THEN <<Spread(item1, [c \in {collection2} |-> Null])>>
        ELSE <<>>

RECURSIVE joinLeft(_, _, _, _, _, _, _)
joinLeft(items1, items2, collection2, joinKey1, joinKey2, joinType, i) ==
    IF i > Len(items1) THEN <<>>
    ELSE joinRows(items1[i], items2, collection2, joinKey1, joinKey2, joinType)
         \o joinLeft(items1, items2, collection2, joinKey1, joinKey2,
                     joinType, i + 1)

\* The rows of a right join for the items of collection2 without a match:
\* { [collection1]: null, ...item2 }
RECURSIVE joinRight(_, _, _, _, _, _)
joinRight(items1, items2, collection1, joinKey1, joinKey2, i) ==
    IF i > Len(items2) THEN <<>>
    ELSE (IF Len(matching(items1, joinKey1, Get(items2[i], joinKey2), 1)) = 0
          THEN <<Spread([c \in {collection1} |-> Null], items2[i])>>
          ELSE <<>>)
         \o joinRight(items1, items2, collection1, joinKey1, joinKey2, i + 1)

\* GitDB.join(collection1, collection2, joinKey1, joinKey2, joinType)
join(collection1, collection2, joinKey1, joinKey2, joinType) ==
    LET q1 == readInto(cache, collection1)
        q2 == readInto(q1.cache, collection2)
    IN  queryReturns("join", collection1,
                     [collection2 |-> collection2, joinKey1 |-> joinKey1,
                      joinKey2 |-> joinKey2, joinType |-> joinType,
                      items2 |-> q2.items],
                     q2,
                     joinLeft(q1.items, q2.items, collection2, joinKey1,
                              joinKey2, joinType, 1)
                     \o (IF joinType = "right"
                         THEN joinRight(q1.items, q2.items, collection1,
                                        joinKey1, joinKey2, 1)
                         ELSE <<>>))

----------------------------------------------------------------------------
(* The format codecs of FormatManager and the envelope of EncryptionManager. *)
(* A text in the syntax of JSON is modelled by the value it denotes (see     *)
(* serialize and parse above); a text in another syntax carries its syntax.  *)

notCodec ==
    <<dataVars, now, nops, lockVars, ghVars, fsVars, queryVars, histVars,
      lateVars>>

\* A text that is not in the syntax of JSON: the text that another codec
\* wrote (YAML, CSV, XML) or a damaged text
NotJSON(syntax, denotes) == [syntax |-> syntax, denotes |-> denotes]

\* Whether JSON.parse(text) returns (it throws a SyntaxError otherwise)
isJSON(text) == ~Has(text, "syntax")

\* The empty string ''
EmptyText == NotJSON("none", EmptyObj)

\* What a call gives: the value it returns, or the error it throws
Returned(value) == [threw |-> "none", value |-> value]

Threw(error) == [threw |-> error]

\* What an async function returns at once
Promise(value) == [t |-> "promise", value |-> value]

\* JSON.parse(text): the object with the properties that the text holds
JSONparse(text) == [k \in DOMAIN text |-> text[k]]

\* CSVFormat.serialize(data): '' unless data is an array that is not empty;
\* a header line of the keys of the first item, then a line of cells per item
CSVserialize(data) ==
    IF ~isArray(data) THEN EmptyText
    ELSE IF Len(data.of) = 0 THEN EmptyText
    ELSE LET headers == DOMAIN data.of[1]
         IN  NotJSON("csv",
               [headers |-> headers,
                rows |-> [i \in 1..Len(data.of) |->
                            [h \in headers |->
                               IF falsy(Get(data.of[i], h)) THEN Str("")
                               ELSE toString(data.of[i][h])]]])

\* CSVFormat.parse(data): an array of the items of the lines after the first
\* (the header line); '' has one line, the empty one
CSVparse(text) ==
    IF ~Has(text, "syntax") THEN Arr(<<>>)
    ELSE IF text.syntax # "csv" THEN Arr(<<>>)
    ELSE Arr([i \in 1..Len(text.denotes.rows) |->
                [h \in text.denotes.headers |-> text.denotes.rows[i][h]]])

\* YAMLFormat.serialize(data): yaml.dump; the text of the empty object, '{}',
\* is in the syntax of JSON too
YAMLserialize(data) ==
    IF data = EmptyObj THEN serialize(data) ELSE NotJSON("yaml", data)

\* YAMLFormat.parse(data): yaml.load, which reads JSON too
YAMLparse(text) ==
    IF isJSON(text) THEN Returned(JSONparse(text))
    ELSE IF text.syntax = "yaml" THEN Returned(text.denotes)
    ELSE Threw("FormatError")

\* XMLFormat.serialize(data): dataToXML, then Builder.buildObject; a value is
\* written as its text
XMLserialize(data) ==
    NotJSON("xml",
      [c \in DOMAIN data |->
         [i \in 1..Len(data[c]) |->
            [k \in DOMAIN data[c][i] |-> toString(data[c][i][k])]]])

\* XMLFormat.xmlToData(xmlObj): the items of each collection as xml2js gives
\* them, the elements of an item as arrays of their texts
xmlToData(xmlObj) ==
    [c \in DOMAIN xmlObj |->
       [i \in 1..Len(xmlObj[c]) |->
          [k \in DOMAIN xmlObj[c][i] |-> Arr(<<xmlObj[c][i][k]>>)]]]

\* XMLFormat.parse(data), an async function: what it returns is a promise
XMLparse(text) ==
    IF ~Has(text, "syntax") THEN Promise(Threw("FormatError"))
    ELSE IF text.syntax # "xml" THEN Promise(Threw("FormatError"))
    ELSE Promise(Returned(xmlToData(text.denotes)))

\* FormatManager.serialize(data) of a manager with this format; a Database
\* or, with an encryption key, an envelope (an object of three strings)
formatSerialize(format, data) ==
    CASE format = "json" -> IF Has(data, "iv") THEN stringifyItem(data)
                            ELSE serialize(data)
      [] format = "csv" -> CSVserialize(data)
      [] format = "yaml" -> YAMLserialize(data)
      [] format = "xml" -> XMLserialize(data)

\* FormatManager.parse(data) of a manager with this format
formatParse(format, text) ==
    CASE format = "json" -> IF isJSON(text) THEN Returned(JSONparse(text))
                            ELSE Threw("FormatError")
      [] format = "csv" -> Returned(CSVparse(text))
      [] format = "yaml" -> YAMLparse(text)
      [] format = "xml" -> Returned(XMLparse(text))

\* EncryptionManager.calculateChecksum(data): the SHA-256 digest of
\* JSON.stringify(data)
calculateChecksum(data) == [t |-> "string", sha256 |-> serialize(data)]

\* cipher.update(JSON.stringify(data)) + cipher.final(): the ciphertext of
\* the text under the key derived from encryptionKey, with the iv
cipher(key, iv, data) ==
    [t |-> "string", key |-> key, iv |-> iv, plain |-> serialize(data)]

\* iv.toString('hex') of the n-th value of crypto.randomBytes(16)
Hex(n) == [t |-> "string", hex |-> n]

\* EncryptionManager.encrypt(data) with the n-th random iv
encrypt(encryptionKey, n, data) ==
    IF encryptionKey = Undefined THEN data
    ELSE [iv |-> Hex(n), data |-> cipher(encryptionKey, Hex(n), data),
          checksum |-> calculateChecksum(data)]

\* encryptedData.checksum && !this.verifyChecksum(data, encryptedData.checksum)
integrityFails(data, checksum) ==
    ~falsy(checksum) /\ calculateChecksum(data) # checksum

\* EncryptionManager.decrypt(encryptedData): a value that is no envelope, or
\* one of another key or iv, makes Buffer.from, decipher.final or JSON.parse
\* throw
decrypt(encryptionKey, encryptedData) ==
    IF encryptionKey = Undefined THEN Returned(encryptedData)
    ELSE IF ~(Has(encryptedData, "iv") /\ Has(encryptedData, "data"))
    THEN Threw("DecryptError")
    ELSE IF \/ encryptedData.data.key # encryptionKey
            \/ encryptedData.data.iv # encryptedData.iv
    THEN Threw("DecryptError")
    ELSE LET data == parse(encryptedData.data.plain)
         IN  IF integrityFails(data, Get(encryptedData, "checksum"))
             THEN Threw("IntegrityError")
             ELSE Returned(data)

\* GitDB.writeDataFile(data): the text that it hands to storage.write
writeDataFileText(cfg, n, data) ==
    formatSerialize(cfg.format, encrypt(cfg.encryptionKey, n, data))

\* GitDB.readDataFile() of a storage that holds the text: formatManager.parse,
\* then decrypt when a key is configured
readDataFileOf(cfg, text) ==
    LET parsedData == formatParse(cfg.format, text)
    IN  IF parsedData.threw # "none" THEN parsedData
        ELSE decrypt(cfg.encryptionKey, parsedData.value)

\* formatManager.serialize(data) is called with a Database
codec_serialize ==
    /\ cpc = "input"
    /\ ~Has(cin, "iv")
    /\ ctext' = formatSerialize(config.format, cin)
    /\ cpc' = "text"
    /\ UNCHANGED <<config, cin, cout, notCodec>>

\* formatManager.parse(text) is called with the text that serialize returned
codec_parse ==
    /\ cpc = "text"
    /\ cout' = formatParse(config.format, ctext)
    /\ cpc' = "parsed"
    /\ UNCHANGED <<config, cin, ctext, notCodec>>

\* encryptionManager.decrypt(encryptedData) is called with an envelope
codec_decrypt ==
    /\ cpc = "input"
    /\ Has(cin, "iv")
    /\ cout' = decrypt(config.encryptionKey, cin)
    /\ cpc' = "decrypted"
    /\ UNCHANGED <<config, cin, ctext, notCodec>>

\* The text '{}'
EmptyJSON == serialize(EmptyObj)

\* LocalStorage.initialize(): the data file does not exist, and
\* this.write('{}', 'Initialize database') creates it
storage_initialize ==
    /\ cpc = "idle"
    /\ ctext' = EmptyJSON
    /\ cpc' = "file"
    /\ UNCHANGED <<config, cin, cout, notCodec>>

\* LocalStorage.read(): the text of the data file, '{}' when it does not exist
readOrDefault == IF cpc = "idle" THEN EmptyJSON ELSE ctext

\* GitDB.create(collection, item) of an engine with a format and an
\* encryption key, by a single caller: readDataFile, the item, writeDataFile
configured_create(collection, item) ==
    /\ cpc \in {"idle", "file"}
    /\ nops < MaxOps
    /\ nops' = nops + 1
    /\ LET data == readDataFileOf(config, readOrDefault)
           newItem == createItem(item, now, nextId)
       IN  IF data.threw # "none"
           THEN /\ cout' = data
                /\ UNCHANGED <<ctext, cpc, nextId>>
           ELSE /\ nextId' = IF Get(item, "id") # Undefined THEN nextId
                              ELSE nextId + 1
                /\ IF validateItem(newItem)
                   THEN /\ ctext' = writeDataFileText(config, nops,
                                        push(ensureCollection(data.value,
                                                              collection),
                                             collection, newItem))
                        /\ cpc' = "file"
                        /\ cout' = Returned(newItem)
                   ELSE /\ cout' = Threw("ValidationError")
                        /\ UNCHANGED <<ctext, cpc>>
    /\ UNCHANGED <<config, cin, store, cache, last, created, now, lockVars, ghVars,
                   fsVars, queryVars, histVars, lateVars>>

----------------------------------------------------------------------------
(* The version log of the GitHub medium, HistoryManager.revertToCommit and   *)
(* a mutating operation of the transaction engine on the same file.  A       *)
(* commit's sha is its place in the log; the blob sha of a text is the text. *)

notHist == <<dataVars, now, pc, kind, retries, acquired, thrown, attempts,
             ghVars, fsVars, queryVars, codecVars, lateVars>>

\* A nested object value: its keys in insertion order, with their values
Obj(pairs) == [t |-> "object", pairs |-> pairs]

\* response.data.sha of getContent at the branch: the blob sha of the file's
\* text, null when the file is not there (404)
getFileInfo(lg) ==
    IF lg = <<>> THEN [t |-> "null"] ELSE [t |-> "sha", of |-> lg[Len(lg)].content]

\* The commit that createOrUpdateFileContents makes of a text: GitHub dates
\* it with the time of the call
Commit(content, by) == [content |-> content, by |-> by, date |-> Time(now)]

\* The branch after createOrUpdateFileContents has committed a text, were the
\* commit to replace the head instead of following it
committedAmend(lg, c) == Append(SubSeq(lg, 1, Len(lg) - 1), c)

\* The branch after createOrUpdateFileContents has committed a text: a new
\* commit whose parent is the head
committed(lg, c) == Append(lg, c)

\* A mutating operation starts: await this.lockManager.acquireLock()
txn_acquireLock ==
    /\ tpc = "idle"
    /\ lockFile = NoLock
    /\ nops < MaxCommits
    /\ nops' = nops + 1
    /\ lockFile' = [exists |-> TRUE, nan |-> FALSE, time |-> now, creator |-> 1]
    /\ tpc' = "readDataFile"
    /\ UNCHANGED <<log, tdata, tsha, vpc, vtarget, vcontent, vsha, vthrown, vlog,
                   hlast, tlast, notHist>>

\* await this.readDataFile() (GitHubStorage.read of the branch), then the
\* operation's mutation of the data in memory: the text it will write
txn_readDataFile(text) ==
    /\ tpc = "readDataFile"
    /\ tdata' = text
    /\ tpc' = "getFileInfo"
    /\ UNCHANGED <<log, tsha, vpc, vtarget, vcontent, vsha, vthrown, vlog, hlast, tlast,
                   lockFile, nops, notHist>>

\* writeDataFile -> GitHubStorage.write: const { sha } = await this.getFileInfo()
txn_getFileInfo ==
    /\ tpc = "getFileInfo"
    /\ tsha' = getFileInfo(log)
    /\ tpc' = "createOrUpdateFileContents"
    /\ UNCHANGED <<log, tdata, vpc, vtarget, vcontent, vsha, vthrown, vlog, hlast, tlast,
                   lockFile, nops, notHist>>

\* createOrUpdateFileContents({ ..., sha }): GitHub commits when sha is the
\* file's blob sha on the branch, and answers 409 otherwise
txn_createOrUpdateFileContents ==
    /\ tpc = "createOrUpdateFileContents"
    /\ log' = IF tsha = getFileInfo(log)
              THEN committed(log, Commit(tdata, "txn"))
              ELSE log
    /\ tpc' = "releaseLock"
    /\ UNCHANGED <<tdata, tsha, vpc, vtarget, vcontent, vsha, vthrown, vlog,
                   hlast, tlast, lockFile, nops, notHist>>

\* finally { await this.lockManager.releaseLock() }
txn_releaseLock ==
    /\ tpc = "releaseLock"
    /\ lockFile' = NoLock
    /\ tpc' = "idle"
    /\ UNCHANGED <<log, tdata, tsha, vpc, vtarget, vcontent, vsha, vthrown, vlog,
                   hlast, tlast, nops, notHist>>

\* getContent({ ..., ref: sha }) read at the branch instead of at the commit
getFileAtBranch(lg, sha) == lg[Len(lg)].content

\* HistoryManager.getFileAtCommit(sha).content: the text of the file at the
\* commit (base64 to utf8, the inverse of write's utf8 to base64)
getFileAtCommit(lg, sha) == lg[sha].content

\* HistoryManager.revertToCommit(sha) is called
revertToCommit(sha) ==
    /\ vpc = "idle"
    /\ nops < MaxCommits
    /\ nops' = nops + 1
    /\ vtarget' = sha
    /\ vlog' = log
    /\ vthrown' = "none"
    /\ vpc' = "getFileAtCommit"
    /\ UNCHANGED <<log, tpc, tdata, tsha, vcontent, vsha, hlast, tlast, lockFile, notHist>>

\* const fileData = await this.getFileAtCommit(sha); a sha that names no
\* commit of the file makes it throw
revert_getFileAtCommit ==
    /\ vpc = "getFileAtCommit"
    /\ IF vtarget \in 1..Len(log)
       THEN /\ vcontent' = getFileAtCommit(log, vtarget)
            /\ vpc' = "getFileInfo"
            /\ UNCHANGED vthrown
       ELSE /\ vthrown' = "StorageError"
            /\ vpc' = "done"
            /\ UNCHANGED vcontent
    /\ UNCHANGED <<log, tpc, tdata, tsha, vtarget, vsha, vlog, hlast, tlast, lockFile,
                   nops, notHist>>

\* await this.storage.write(fileData.content, commitMessage): getFileInfo
revert_getFileInfo ==
    /\ vpc = "getFileInfo"
    /\ vsha' = getFileInfo(log)
    /\ vpc' = "createOrUpdateFileContents"
    /\ UNCHANGED <<log, tpc, tdata, tsha, vtarget, vcontent, vthrown, vlog, hlast, tlast,
                   lockFile, nops, notHist>>

\* await this.storage.write(fileData.content, commitMessage): the commit
revert_createOrUpdateFileContents ==
    /\ vpc = "createOrUpdateFileContents"
    /\ IF vsha = getFileInfo(log)
       THEN /\ log' = committed(log, Commit(vcontent, "revert"))
            /\ vthrown' = "ok"
       ELSE /\ vthrown' = "StorageError"
            /\ UNCHANGED log
    /\ vpc' = "done"
    /\ UNCHANGED <<tpc, tdata, tsha, vtarget, vcontent, vsha, vlog, hlast, tlast,
                   lockFile, nops, notHist>>

\* revertToCommit has returned { success: true, ... } or thrown
revert_return ==
    /\ vpc = "done"
    /\ vpc' = "idle"
    /\ vtarget' = 0
    /\ vcontent' = EmptyObj
    /\ vsha' = [t |-> "null"]
    /\ vlog' = <<>>
    /\ UNCHANGED <<log, tpc, tdata, tsha, vthrown, hlast, tlast, lockFile, nops, notHist>>

\* GitDB.read(collection, query) on the data file of GitHubStorage: the text
\* of the newest commit, '{}' when the file has none; the texts of the runs
\* are JSON
read_github(collection, query) ==
    /\ \/ log = <<>>
       \/ isJSON(log[Len(log)].content)
    /\ readFrom(IF log = <<>> THEN EmptyObj
                ELSE JSONparse(log[Len(log)].content),
                collection, query)

\* HistoryManager.getFileHistory(limit): listCommits({ ..., per_page: limit }),
\* the shas of the newest commits, the newest first
getFileHistory(lg, lim) ==
    [i \in 1..Min(lim, Len(lg)) |-> Len(lg) - i + 1]

\* The end of the traversal were the catch of a commit to throw again: the
\* entries of the commits after it are lost
afterParseFailureAbort(rest) == <<>>

\* catch (error) { console.warn(...) }: the commit gives no entry, and the loop
\* goes on to the commits after it
afterParseFailure(rest) == rest

\* getRecordHistory's loop over the commits: an entry for each commit whose
\* data has the collection and in it a record with the id
RECURSIVE recordHistory(_, _, _, _, _)
recordHistory(lg, commits, collection, recordId, i) ==
    IF i > Len(commits) THEN <<>>
    ELSE LET text == getFileAtCommit(lg, commits[i])
             rest == recordHistory(lg, commits, collection, recordId, i + 1)
         IN  IF ~isJSON(text) THEN afterParseFailure(rest)
             ELSE LET data == JSONparse(text)
                      at == IF Has(data, collection)
                            THEN findIndex(data[collection], recordId) ELSE 0
                  IN  (IF at # 0
                       THEN <<[commit |-> commits[i],
                               record |-> data[collection][at],
                               action |-> "exists"]>>
                       ELSE <<>>)
                      \o rest

\* getCollectionTimeline's loop over the commits: an entry for each commit
\* whose data has the collection
RECURSIVE collectionTimeline(_, _, _, _)
collectionTimeline(lg, commits, collection, i) ==
    IF i > Len(commits) THEN <<>>
    ELSE LET text == getFileAtCommit(lg, commits[i])
             rest == collectionTimeline(lg, commits, collection, i + 1)
         IN  IF ~isJSON(text) THEN afterParseFailure(rest)
             ELSE LET data == JSONparse(text)
                  IN  (IF Has(data, collection)
                       THEN <<[commit |-> commits[i],
                               recordCount |-> Len(data[collection]),
                               collection |-> collection]>>
                       ELSE <<>>)
                      \o rest

\* The text of a nested object's properties, in the order of its keys
RECURSIVE stringifyPairs(_)
stringifyPairs(pairs) ==
    IF pairs = <<>> THEN <<>>
    ELSE <<[t |-> "key", k |-> Head(pairs)[1]], Head(pairs)[2]>>
         \o stringifyPairs(Tail(pairs))

\* JSON.stringify(value), as the sequence of the tokens of its text
JSONstringify(value) ==
    IF TypeOf(value) = "object" THEN stringifyPairs(value.pairs)
    ELSE <<value>>

\* HistoryManager.hasRecordChanged(record1, record2)
hasRecordChanged(record1, record2) ==
    \/ Cardinality(DOMAIN record1) # Cardinality(DOMAIN record2)
    \/ \E key \in DOMAIN record1 :
          JSONstringify(record1[key]) # JSONstringify(Get(record2, key))

\* HistoryManager.analyzeRecordHistory(history): previous is history[i + 1]
analyzeRecordHistory(history) ==
    [i \in 1..Len(history) |->
        [history[i] EXCEPT !.action =
            IF i = Len(history) THEN "created"
            ELSE IF hasRecordChanged(history[i].record, history[i + 1].record)
                 THEN "updated" ELSE "unchanged"]]

\* HistoryManager.getRecordHistory(collection, recordId, limit)
getRecordHistory(collection, recordId, lim) ==
    /\ log # <<>>
    /\ LET commits == getFileHistory(log, lim)
       IN  hlast' = [collection |-> collection, recordId |-> recordId,
                     limit |-> lim, commits |-> commits,
                     ret |-> analyzeRecordHistory(
                               recordHistory(log, commits, collection,
                                             recordId, 1))]
    /\ UNCHANGED <<log, tpc, tdata, tsha, vpc, vtarget, vcontent, vsha, vthrown,
                   vlog, tlast, lockFile, nops, notHist>>

\* HistoryManager.getCollectionTimeline(collection, limit)
getCollectionTimeline(collection, lim) ==
    /\ log # <<>>
    /\ LET commits == getFileHistory(log, lim)
       IN  tlast' = [collection |-> collection, limit |-> lim,
                     commits |-> commits,
                     ret |-> collectionTimeline(log, commits, collection, 1)]
    /\ UNCHANGED <<log, tpc, tdata, tsha, vpc, vtarget, vcontent, vsha, vthrown,
                   vlog, hlast, lockFile, nops, notHist>>

\* a - b: of two numbers their difference; a text that is no numeral (an ISO
\* date) converts to NaN
minus(a, b) == IF Has(a, "n") /\ Has(b, "n") THEN Num(a.n - b.n) ELSE NaN

\* A number as a fraction <<numerator, denominator>> with denominator > 0
Rat(v) ==
    IF Has(v, "n") THEN <<v.n, 1>>
    ELSE IF v.den > 0 THEN <<v.num, v.den>> ELSE <<0 - v.num, 0 - v.den>>

\* value > 0, which is false of NaN
positive(v) ==
    \/ v = Infinity
    \/ (Has(v, "n") \/ Has(v, "num")) /\ Rat(v)[1] > 0

\* Math.round(value * 100) / 100 of a number that is not negative
roundHundredths(v) ==
    [t |-> "number",
     num |-> (200 * Rat(v)[1] + Rat(v)[2]) \div (2 * Rat(v)[2]),
     den |-> 100]

\* commits.length / timeSpan for a timeSpan > 0
perDay(n, timeSpan) ==
    IF timeSpan = Infinity THEN Num(0)
    ELSE [t |-> "number", num |-> n * Rat(timeSpan)[2], den |-> Rat(timeSpan)[1]]

\* The result of getHistoryStats for the commits with the dates, the newest
\* first: timeSpan is the difference of the dates of the newest and the
\* oldest commit, in days
historyStats(dates) ==
    IF Len(dates) = 0
    THEN [totalCommits |-> 0, averageCommitsPerDay |-> Num(0)]
    ELSE LET timeSpan == divide(minus(dates[1], dates[Len(dates)]),
                                Num(TicksPerDay))
             averageCommitsPerDay ==
                 IF positive(timeSpan) THEN perDay(Len(dates), timeSpan)
                 ELSE Num(0)
         IN  [totalCommits |-> Len(dates),
              averageCommitsPerDay |-> roundHundredths(averageCommitsPerDay)]

\* HistoryManager.getHistoryStats()
getHistoryStats ==
    /\ nops < MaxCommits
    /\ nops' = nops + 1
    /\ LET commits == getFileHistory(log, StatsLimit)
           dates == [i \in 1..Len(commits) |-> log[commits[i]].date]
       IN  slast' = [commits |-> commits, dates |-> dates,
                     ret |-> historyStats(dates)]
    /\ UNCHANGED <<dataVars, now, lockVars, ghVars, fsVars, queryVars,
                   histVars, codecVars, judged, inflight>>

----------------------------------------------------------------------------
(* The callers of the model *)

Tick ==
    /\ now < MaxTime
    /\ now' = now + 1
    /\ UNCHANGED <<dataVars, nops, lockVars, ghVars, moreVars>>

Collections == {"users", "posts"}

Items ==
    { EmptyObj,
      [id |-> Id(1), age |-> Num(20)],
      [id |-> Id(1), age |-> Str("x")] }

Updates ==
    { [id |-> Id(2), createdAt |-> Str("Y"), age |-> Num(30)],
      [age |-> Str("x")] }

TargetIds == {Id(1), Id(9)}

Queries == { EmptyObj, [id |-> Id(1)] }

Op(type, collection, id, item, updates) ==
    [type |-> type, collection |-> collection, id |-> id, item |-> item,
     updates |-> updates]

Operations ==
    {Op("create", "users", Undefined, i, EmptyObj) : i \in Items}
    \cup {Op("update", "users", Id(1), EmptyObj, u) : u \in Updates}
    \cup {Op("update", "posts", Id(1), EmptyObj, [age |-> Num(30)]),
          Op("delete", "users", Id(1), EmptyObj, EmptyObj),
          Op("upsert", "users", Id(1), EmptyObj, EmptyObj)}

\* The batches of n operations
Batches(n) == [1..n -> Operations]

\* The state after construction, but for the lock file
InitNoLog ==
    /\ pc = [p \in Procs |-> "idle"]
    /\ kind = [p \in Procs |-> "none"]
    /\ retries = [p \in Procs |-> 0]
    /\ acquired = [p \in Procs |-> FALSE]
    /\ thrown = [p \in Procs |-> "none"]
    /\ attempts = [p \in Procs |-> 0]
    /\ head = 0
    /\ remote = {}
    /\ wpc = [w \in Writers |-> "idle"]
    /\ wdata = [w \in Writers |-> {}]
    /\ wsha = [w \in Writers |-> 0]
    /\ wread = [w \in Writers |-> 0]
    /\ wthrown = [w \in Writers |-> "none"]
    /\ store = EmptyObj
    /\ cache = EmptyObj
    /\ now = 0
    /\ nextId = 0
    /\ nops = 0
    /\ last = [op |-> "none", collection |-> "", id |-> NoId, arg |-> EmptyObj,
               pre |-> EmptyObj, outcome |-> "ok", ret |-> Undefined,
               writes |-> 0, trace |-> <<>>]
    /\ created = Undefined
    /\ files = [x \in {"data"} |-> 1]
    /\ inodes = <<Snapshot(0)>>
    /\ fpc = "idle"
    /\ fver = 0
    /\ fbefore = <<>>
    /\ fthrown = "none"
    /\ rpc = "idle"
    /\ rfd = 0
    /\ rbuf = <<>>
    /\ qlast = [op |-> "none", collection |-> "", arg |-> EmptyObj,
                ret |-> <<>>, before |-> <<>>, seq |-> 0, at |-> 0]
    /\ tpc = "idle"
    /\ tdata = EmptyObj
    /\ tsha = [t |-> "null"]
    /\ vpc = "idle"
    /\ vtarget = 0
    /\ vcontent = EmptyObj
    /\ slast = [commits |-> <<>>, dates |-> <<>>, ret |-> Undefined]
    /\ judged = [p \in Procs |-> NoLock]
    /\ inflight = NoRead
    /\ vsha = [t |-> "null"]
    /\ vthrown = "none"
    /\ vlog = <<>>
    /\ hlast = [collection |-> "", recordId |-> NoId, limit |-> 0,
                commits |-> <<>>, ret |-> <<>>]
    /\ tlast = [collection |-> "", limit |-> 0, commits |-> <<>>, ret |-> <<>>]
    /\ ctext = EmptyText
    /\ cout = Threw("none")

\* A repository in which the data file has no commit yet
InitOther ==
    /\ InitNoLog
    /\ log = <<>>

\* new GitDB(options) with neither format nor encryptionKey
DefaultConfig == [format |-> "json", encryptionKey |-> Undefined]

\* No codec is being applied
InitEngine ==
    /\ cin = EmptyObj
    /\ cpc = "idle"
    /\ InitOther

Init ==
    /\ lockFile = NoLock
    /\ config = DefaultConfig
    /\ InitEngine

\* A single caller: each operation runs from its acquireLock to its
\* releaseLock before the next starts, so the lock file is absent between them
Next ==
    \/ \E c \in Collections, i \in Items : create(c, i)
    \/ \E c \in Collections, q \in Queries : read(c, q)
    \/ \E c \in Collections, i \in TargetIds, u \in Updates : update(c, i, u)
    \/ \E c \in Collections, i \in TargetIds : delete(c, i)
    \/ \E c \in Collections : deleteCollection(c)
    \/ Tick

\* The single operations and read, called one after the other
Spec == Init /\ [][Next]_vars

NextBulk ==
    \/ \E n \in 1..Min(MaxBulk, MaxOps - nops) :
          \E b \in Batches(n) : bulkOperation(b)
    \/ \E u \in Updates : update("users", Id(1), u)
    \/ \E c \in Collections : read(c, EmptyObj)
    \/ Tick

\* bulkOperation, with update and read, called one after the other
SpecBulk == Init /\ [][NextBulk]_vars

NextLock ==
    \/ \E p \in Procs, k \in Kinds : call(p, k)
    \/ \E p \in Procs : acquireLock_writeFile(p)
    \/ \E p \in Procs : acquireLock_readFile(p)
    \/ \E p \in Procs : acquireLock_clearStale(p)
    \/ \E p \in Procs : acquireLock_unlink(p)
    \/ \E p \in Procs : acquireLock_sleep(p)
    \/ \E p \in Procs : body_readDataFile(p)
    \/ \E p \in Procs : body_writeDataFile(p)
    \/ \E p \in Procs : releaseLock(p)
    \/ \E p \in Procs : return(p)
    \/ Tick

\* Mutating operations called concurrently on one lock file
SpecLock == Init /\ [][NextLock]_vars

\* The lock files that a holder which crashed leaves behind, at time 0 or one
\* tick before: writeFile creates the file and then writes
\* Date.now().toString() into it, so the file holds the time, or not yet a
\* number (parseInt gives NaN)
Leftovers ==
    {[exists |-> TRUE, nan |-> n, time |-> t, creator |-> 0] :
        n \in BOOLEAN, t \in {-1, 0}}

InitStale ==
    /\ lockFile \in Leftovers
    /\ config = DefaultConfig
    /\ InitEngine

\* Mutating operations called concurrently after a holder of the lock crashed
SpecStale == InitStale /\ [][NextLock]_vars

\* The lock file of a holder that crashed a tick ago
StaleLeftover == [exists |-> TRUE, nan |-> FALSE, time |-> -1, creator |-> 0]

InitRace ==
    /\ lockFile = StaleLeftover
    /\ config = DefaultConfig
    /\ InitEngine

NextRace ==
    \/ \E p \in Procs : call(p, "create")
    \/ \E p \in Procs : acquireLock_writeFile(p)
    \/ \E p \in Procs : acquireLock_readFile_judging(p)
    \/ \E p \in Procs : acquireLock_clearStale(p)
    \/ \E p \in Procs : acquireLock_unlink(p)
    \/ \E p \in Procs : acquireLock_sleep(p)
    \/ \E p \in Procs : body_readDataFile(p)
    \/ \E p \in Procs : body_writeDataFile(p)
    \/ \E p \in Procs : releaseLock(p)
    \/ \E p \in Procs : return(p)

\* Creates called concurrently while the lock file of a crashed holder is
\* there, stale
SpecRace == InitRace /\ [][NextRace]_vars

NextGitHub ==
    \/ \E w \in Writers : gh_read(w)
    \/ \E w \in Writers : gh_getFileInfo(w)
    \/ \E w \in Writers : gh_createOrUpdateFileContents(w)
    \/ \E w \in Writers : gh_return(w)

\* Two processes writing to one GitHub file
SpecGitHub == Init /\ [][NextGitHub]_vars

NextFile ==
    \/ storage_write
    \/ write_open
    \/ write_chunk
    \/ write_rename
    \/ write_catch
    \/ write_return
    \/ storage_read
    \/ read_chunk
    \/ read_return

\* One writer (the holder of the lock) and one reader on the local data file
SpecFile == Init /\ [][NextFile]_vars

\* The records of the history runs
R1 == [id |-> Id(1), age |-> Num(30),
       address |-> Obj(<< <<"city", Str("x")>>, <<"zip", Num(1)>> >>)]

\* R1 with another age
R1b == [R1 EXCEPT !.age = Num(31)]

\* R1 with the keys of its address in another order
R1c == [R1 EXCEPT !.address =
                      Obj(<< <<"zip", Num(1)>>, <<"city", Str("x")>> >>)]

\* The texts that the mutating operations of the history runs write
Texts ==
    { [users |-> <<>>], [users |-> <<R1>>], [users |-> <<R1b>>],
      [users |-> <<R1c>>] }

NextRevert ==
    \/ txn_acquireLock
    \/ \E text \in Texts : txn_readDataFile(text)
    \/ txn_getFileInfo
    \/ txn_createOrUpdateFileContents
    \/ txn_releaseLock
    \/ \E sha \in 1..MaxCommits : revertToCommit(sha)
    \/ revert_getFileAtCommit
    \/ revert_getFileInfo
    \/ revert_createOrUpdateFileContents
    \/ revert_return

\* A mutating operation and a revert, concurrently on one GitHub file
SpecRevert == Init /\ [][NextRevert]_vars

NextHistory ==
    \/ txn_acquireLock
    \/ \E text \in Texts : txn_readDataFile(text)
    \/ txn_getFileInfo
    \/ txn_createOrUpdateFileContents
    \/ txn_releaseLock
    \/ \E c \in Collections, i \in TargetIds, lim \in 1..MaxCommits :
          getRecordHistory(c, i, lim)

\* Mutating operations and getRecordHistory on one GitHub file
SpecHistory == Init /\ [][NextHistory]_vars

\* A file with two commits of different texts
InitReverted ==
    /\ lockFile = NoLock
    /\ config = DefaultConfig
    /\ cin = EmptyObj
    /\ cpc = "idle"
    /\ InitNoLog
    /\ \E t1, t2 \in Texts :
          /\ t1 # t2
          /\ log = <<Commit(t1, "txn"), Commit(t2, "txn")>>

NextRevertRead ==
    \/ read_github("users", EmptyObj)
    \/ \E sha \in 1..MaxCommits : revertToCommit(sha)
    \/ revert_getFileAtCommit
    \/ revert_getFileInfo
    \/ revert_createOrUpdateFileContents
    \/ revert_return

\* Reads of a GitDB and reverts of the HistoryManager on one GitHub file
SpecRevertRead == InitReverted /\ [][NextRevertRead]_vars

\* The text of a, '_' and b, as the sequence of its pieces
Underscored(a, b) == [t |-> "string", joined |-> <<a, Str("_"), b>>]

\* The items of the grouping runs: the groupBy fields k and g with a zero, an
\* empty text, a text with a '_' in it, or missing
GroupedItems ==
    { [k |-> Num(0), g |-> Str("c")],
      [k |-> Str(""), g |-> Str("c")],
      [g |-> Str("c")],
      [k |-> Str("a"), g |-> Str("c")],
      [k |-> Underscored(Str("a"), Str("b")), g |-> Str("c")],
      [k |-> Str("a"), g |-> Underscored(Str("b"), Str("c"))] }

\* Group stages that collect the ids of the records of each group
GroupByPipelines ==
    { << [type |-> "group", groupBy |-> groupBy,
          aggregations |-> << [name |-> "ids", type |-> "push",
                               field |-> "id"] >>] >> :
        groupBy \in { <<"k">>, <<"k", "g">> } }

NextGroup ==
    \/ \E i \in GroupedItems : nops < MaxQueries /\ create("users", i)
    \/ \E pl \in GroupByPipelines : aggregate("users", pl)

\* The group stage, after creates
SpecGroup == Init /\ [][NextGroup]_vars

\* A day passes
DayPasses ==
    /\ now < MaxDays * TicksPerDay
    /\ now' = now + TicksPerDay
    /\ UNCHANGED <<dataVars, nops, lockVars, ghVars, moreVars>>

NextStats ==
    \/ txn_acquireLock
    \/ \E text \in {[users |-> <<>>], [users |-> <<R1>>]} : txn_readDataFile(text)
    \/ txn_getFileInfo
    \/ txn_createOrUpdateFileContents
    \/ txn_releaseLock
    \/ Tick
    \/ DayPasses
    \/ getHistoryStats

\* Mutating operations on one GitHub file while time passes, and
\* getHistoryStats
SpecStats == Init /\ [][NextStats]_vars

\* The texts of the timeline runs: those of an engine with format 'json', and
\* one that an engine with format 'yaml' wrote to the same file
TimelineTexts ==
    { [users |-> <<>>], [users |-> <<R1>>],
      NotJSON("yaml", [users |-> <<R1>>]) }

NextTimeline ==
    \/ txn_acquireLock
    \/ \E text \in TimelineTexts : txn_readDataFile(text)
    \/ txn_getFileInfo
    \/ txn_createOrUpdateFileContents
    \/ txn_releaseLock
    \/ \E lim \in {1, MaxCommits} : getRecordHistory("users", Id(1), lim)
    \/ \E c \in Collections, lim \in {1, MaxCommits} :
          getCollectionTimeline(c, lim)

\* Mutating operations, getRecordHistory and getCollectionTimeline on one
\* GitHub file that holds texts of two formats
SpecTimeline == Init /\ [][NextTimeline]_vars

\* The records of the codec runs
CodecItems == { [id |-> Id(1), age |-> Num(30)], [id |-> Id(2), age |-> Num(0)] }

\* The lists of at most n of them
CodecLists(n) == UNION {[1..k -> CodecItems] : k \in 0..n}

\* Databases: no collection, one, or two of which the second is empty
Databases ==
    {EmptyObj}
    \cup {[users |-> l] : l \in CodecLists(MaxRows)}
    \cup {[users |-> l, posts |-> <<>>] : l \in CodecLists(MaxRows)}

Formats == {"json", "csv", "yaml", "xml"}

\* options.encryptionKey of the runs with a key
Key == Str("secret")

\* The envelopes that a reader may find: the one that encrypt wrote for a
\* Database, and that one with the checksum of another text, with an empty
\* checksum or with none
Envelopes ==
    UNION {
      LET e == encrypt(Key, 1, d)
      IN  {e, [e EXCEPT !.checksum = Str("")], Without(e, "checksum")}
          \cup {[e EXCEPT !.checksum = calculateChecksum(d2)] : d2 \in Databases}
      : d \in Databases }

\* A codec or decrypt is about to be applied to a value
InitCodec ==
    /\ lockFile = NoLock
    /\ config \in [format : Formats, encryptionKey : {Undefined, Key}]
    /\ cin \in Databases \cup Envelopes
    /\ cpc = "input"
    /\ InitOther

NextCodec ==
    \/ codec_serialize
    \/ codec_parse
    \/ codec_decrypt

\* serialize then parse of a format applied to a Database, and decrypt
\* applied to an envelope
SpecCodec == InitCodec /\ [][NextCodec]_vars

\* The configurations of the history runs on texts that the engine wrote
HistoryConfigs == [format : {"json", "yaml"}, encryptionKey : {Undefined, Key}]

InitConfigured ==
    /\ lockFile = NoLock
    /\ config \in HistoryConfigs
    /\ InitEngine

NextConfigured ==
    \/ txn_acquireLock
    \/ \E text \in Texts : txn_readDataFile(writeDataFileText(config, nops, text))
    \/ txn_getFileInfo
    \/ txn_createOrUpdateFileContents
    \/ txn_releaseLock
    \/ \E lim \in 1..MaxCommits : getRecordHistory("users", Id(1), lim)

\* Mutating operations of an engine with a format and an encryption key, and
\* getRecordHistory, on one GitHub file
SpecConfigured == InitConfigured /\ [][NextConfigured]_vars

\* An engine with a format and maybe an encryption key, on a repository
\* directory without a data file
NextFresh ==
    \/ storage_initialize
    \/ \E c \in Collections, i \in Items : configured_create(c, i)

SpecFresh == InitConfigured /\ [][NextFresh]_vars

\* The items of the query runs: records with a numeric age
QItems == { [age |-> Num(30)], [age |-> Num(10)], [age |-> Num(20)] }

Conditions == { [age |-> [t |-> "object", operator |-> "gt", value |-> Num(15)]],
                [age |-> Num(10)] }

OrderBys ==
    { [isArray |-> FALSE, key |-> "age"],
      [isArray |-> TRUE, key |-> "age", order |-> "desc"] }

\* The options of select: each clause given or not
SelectOptions ==
    { Spread(Spread(Spread(Spread(w, o), l), f), EmptyObj) :
        w \in {EmptyObj, [where |-> [age |-> [t |-> "object", operator |-> "gt",
                                              value |-> Num(15)]]]},
        o \in {EmptyObj} \cup {[orderBy |-> ob] : ob \in OrderBys},
        l \in {EmptyObj, [limit |-> 1], [limit |-> 1, offset |-> 1]},
        f \in {EmptyObj, [fields |-> <<"age">>]} }

Pipelines ==
    { << [type |-> "sort", sort |-> << <<"age", 1>> >>] >>,
      << [type |-> "match", conditions |-> [age |-> Num(10)]],
         [type |-> "sort", sort |-> << <<"age", -1>> >>] >>,
      << [type |-> "sort", sort |-> << <<"age", -1>> >>],
         [type |-> "limit", limit |-> 1] >>,
      << [type |-> "unwind"] >> }

NextQuery ==
    \/ \E i \in QItems : nops < MaxQueries /\ create("users", i)
    \/ \E c \in Collections : nops < MaxQueries /\ read(c, EmptyObj)
    \/ \E c \in Collections, o \in {"asc", "desc"} : sort(c, "age", o)
    \/ \E c \in Collections, w \in Conditions : where(c, w)
    \/ \E c \in Collections, n \in 1..2, offset \in 0..1 : limit(c, n, offset)
    \/ \E c \in Collections : count(c)
    \/ \E c \in Collections, o \in SelectOptions : select(c, o)
    \/ \E c \in Collections, pl \in Pipelines : aggregate(c, pl)
    \/ Tick

\* The query operations, with create and read, called one after the other
SpecQuery == Init /\ [][NextQuery]_vars

NextFlight ==
    \/ \E i \in Items :
          cache = EmptyObj /\ inflight = NoRead /\ create("users", i)
    \/ \E u \in Updates : update("users", Id(1), u)
    \/ delete("users", Id(1))
    \/ read_readDataFile("users", EmptyObj)
    \/ read_cacheSet
    \/ read("users", EmptyObj)

\* Creates, and after them updates, deletes and reads of the collection while
\* another read of it is in flight
SpecFlight == Init /\ [][NextFlight]_vars

\* The queries of the read runs: none, a value, and two predicate functions
ReadQueries ==
    { EmptyObj, [age |-> Num(20)], [age |-> Fn({Num(30)})],
      [age |-> Fn({Num(10), Num(20)})] }

NextReads ==
    \/ \E c \in Collections, i \in QItems : cache = EmptyObj /\ create(c, i)
    \/ \E c \in Collections, q \in ReadQueries : read(c, q)
    \/ Tick

\* Creates, and after them reads with queries of several kinds
SpecReads == Init /\ [][NextReads]_vars

\* A text that starts with a number: '12px'
Px(n) == [t |-> "string", text |-> Num(n), unit |-> "px"]

\* The items of the join and aggregation runs: a key k and a value v that is
\* zero, positive, negative, the text of a number, a text that starts with a
\* number, another text, or missing; one item has a field named as a
\* collection
AggItems ==
    { [k |-> Str("a"), v |-> Num(0)],
      [k |-> Str("a"), v |-> Num(5)],
      [k |-> Str("a"), v |-> Num(-3)],
      [k |-> Str("a"), v |-> toString(Num(2))],
      [k |-> Str("a"), v |-> Px(12)],
      [k |-> Str("b"), v |-> Str("x")],
      [k |-> Str("b"), users |-> Str("u")] }

\* The group stages of the runs
Group(aggregations) ==
    [type |-> "group", groupBy |-> <<"k">>, aggregations |-> aggregations]

Accumulator(name, type) == [name |-> name, type |-> type, field |-> "v"]

GroupPipelines ==
    { << Group(<< Accumulator("lo", "min"), Accumulator("hi", "max") >>) >>,
      << Group(<< Accumulator("mean", "avg") >>) >>,
      << Group(<< Accumulator("count", "count"),
                  Accumulator("mean", "avg") >>) >>,
      << Group(<< Accumulator("n", "count"), Accumulator("mean", "avg") >>) >>,
      << Group(<< Accumulator("total", "sum"),
                  Accumulator("all", "push") >>) >> }

NextAggregate ==
    \/ \E c \in Collections, i \in AggItems :
          nops < MaxQueries /\ create(c, i)
    \/ \E type \in {"inner", "left", "right"} :
          join("users", "posts", "k", "k", type)
    \/ \E c \in Collections : sum(c, "v")
    \/ \E c \in Collections : average(c, "v")
    \/ \E c \in Collections : min(c, "v")
    \/ \E c \in Collections : max(c, "v")
    \/ \E pl \in GroupPipelines : aggregate("users", pl)

\* join, the scalar aggregations and the group stage, after creates
SpecAggregate == Init /\ [][NextAggregate]_vars

----------------------------------------------------------------------------
(* Properties of the lock and of the GitHub medium *)

\* The call is between its successful acquireLock and its releaseLock: it is
\* about to read, or has read and mutated and is about to write
InCriticalSection(p) ==
    acquired[p] /\ pc[p] \in {"readDataFile", "writeDataFile"}

\* C1: at most one mutating operation at a time is between its successful
\* acquireLock and its releaseLock.
C1_MutualExclusion ==
    \A p, q \in Procs :
        p # q => ~(InCriticalSection(p) /\ InCriticalSection(q))

\* C2: two writers that read the same version and both finish: one was
\* rejected with a version conflict, or the file holds what both wrote.
C2_NoLostUpdate ==
    \A v, w \in Writers :
        (/\ v # w
         /\ wpc[v] = "done" /\ wpc[w] = "done"
         /\ wread[v] = wread[w])
           => \/ wthrown[v] = "VersionConflict"
              \/ wthrown[w] = "VersionConflict"
              \/ (wdata[v] \cup wdata[w]) \subseteq remote

\* C3: when a call that acquired the lock has returned or thrown, the lock
\* file it wrote is gone.
C3_LockReleased ==
    \A p \in Procs :
        (pc[p] = "done" /\ acquired[p])
           => ~(lockFile # NoLock /\ lockFile.creator = p)

\* A call that acquired the lock has thrown from its body, and no lock is left
C3_Witness ==
    \E p \in Procs :
        /\ pc[p] = "done" /\ acquired[p]
        /\ thrown[p] \in {"NotFound", "ValidationError", "StorageError"}
        /\ lockFile = NoLock

----------------------------------------------------------------------------
(* Properties of the operations *)

Mutating == {"create", "update", "delete", "deleteCollection", "bulkOperation"}

\* The ids of a collection's records are pairwise distinct
DistinctIds(items) ==
    \A i, j \in 1..Len(items) :
        i # j => Get(items[i], "id") # Get(items[j], "id")

\* C4: after any sequence of successful creates (single or in a batch), with
\* generated or caller-supplied ids, no two records of a collection share an id.
C4_UniqueIds == \A c \in DOMAIN store : DistinctIds(store[c])

\* The record with this id keeps its id and createdAt from `before` to `after`
Protected(before, after, collection, id) ==
    LET k == findIndex(before[collection], id)
    IN  /\ Get(after[collection][k], "id") = Get(before[collection][k], "id")
        /\ Get(after[collection][k], "createdAt")
             = Get(before[collection][k], "createdAt")

\* C5: an update (single, or inside a batch), whatever its payload says about
\* id and createdAt, leaves the stored record's id and createdAt as they were.
C5_ProtectedFields ==
    /\ (last.op = "update" /\ last.outcome = "ok")
          => Protected(last.pre, store, last.collection, last.id)
    /\ last.op = "bulkOperation"
          => \A i \in 1..Len(last.ret) :
                (last.arg[i].type = "update" /\ last.ret[i].success)
                   => Protected(last.trace[i], last.trace[i + 1],
                                last.arg[i].collection, last.arg[i].id)

\* An update whose payload names another id and another createdAt succeeded
C5_Witness ==
    /\ last.op = "update" /\ last.outcome = "ok"
    /\ Has(last.arg, "id") /\ last.arg.id # last.id
    /\ Has(last.arg, "createdAt") /\ last.arg.createdAt # last.ret.createdAt
    /\ last.ret.updatedAt # last.ret.createdAt

\* The collections an operation affects
Affected ==
    IF last.op = "bulkOperation"
    THEN {last.arg[i].collection : i \in 1..Len(last.arg)}
    ELSE {last.collection}

\* C6: after a successful mutating operation the cache holds no read result
\* of a collection the operation affected.
C6_CacheInvalidated ==
    (last.op \in Mutating /\ last.outcome = "ok")
       => \A k \in DOMAIN cache : k[1] \notin Affected

\* C7: a read issued after a successful create returns the created record
\* (when the query matches it), whatever reads and writes came before.
C7_ReadSeesCreate ==
    (/\ last.op = "read"
     /\ created # Undefined
     /\ last.collection = created.collection
     /\ matches(created.item, last.arg))
       => created.item \in Range(last.ret)

\* The data after the operations reported with success:true, applied in order
RECURSIVE applyReported(_, _, _, _)
applyReported(data, operations, results, i) ==
    IF i > Len(operations) THEN data
    ELSE IF ~results[i].success
    THEN applyReported(data, operations, results, i + 1)
    ELSE LET op == operations[i]
             c == op.collection
             next ==
               CASE op.type = "create" ->
                      push(ensureCollection(data, c), c, results[i].item)
                 [] op.type = "update" ->
                      [data EXCEPT ![c][findIndex(data[c], op.id)] = results[i].item]
                 [] op.type = "delete" ->
                      [data EXCEPT ![c] = splice(@, findIndex(data[c], op.id))]
         IN  applyReported(next, operations, results, i + 1)

\* C8: a batch that completes wrote once; the snapshot is the one before it
\* with exactly the operations reported success:true applied in order; every
\* operation has its result, so a failed one stopped nothing and did nothing.
C8_BulkOneWrite ==
    (last.op = "bulkOperation" /\ last.outcome = "ok")
       => /\ last.writes = 1
          /\ Len(last.ret) = Len(last.arg)
          /\ \A i \in 1..Len(last.arg) : last.ret[i].type = last.arg[i].type
          /\ \A i \in 1..Len(last.arg) :
                last.arg[i].type \notin {"create", "update", "delete"}
                   => ~last.ret[i].success
          /\ store = applyReported(last.pre, last.arg, last.ret, 1)

\* A batch whose first operation failed and whose second then took effect
C8_Witness ==
    /\ last.op = "bulkOperation" /\ last.outcome = "ok"
    /\ Len(last.arg) >= 2
    /\ ~last.ret[1].success /\ last.ret[2].success
    /\ store # last.pre

\* C9: a batch with an operation whose record fails validation throws, writes
\* nothing and leaves the snapshot as it was; a batch that completes stored
\* only valid records.
C9_BulkValidationAborts ==
    last.op = "bulkOperation"
       => /\ last.outcome = "ValidationError"
               => last.writes = 0 /\ store = last.pre
          /\ last.outcome = "ok"
               => \A i \in 1..Len(last.ret) :
                     (last.ret[i].success /\ last.arg[i].type # "delete")
                        => validateItem(last.ret[i].item)

\* A batch threw after an earlier operation of it had changed the data in memory
C9_Witness ==
    /\ last.op = "bulkOperation" /\ last.outcome = "ValidationError"
    /\ Len(last.ret) >= 1 /\ last.ret[1].success
    /\ last.trace[2] # last.pre
    /\ store = last.pre

\* The target of the last update or delete is missing from the snapshot before it
Missing ==
    \/ ~Has(last.pre, last.collection)
    \/ /\ last.op \in {"update", "delete"}
       /\ findIndex(last.pre[last.collection], last.id) = 0

----------------------------------------------------------------------------
(* Properties of acquireLock *)

\* C11: a call of acquireLock makes at most maxRetries acquisition attempts
\* (writeFile with flag wx): once that many attempts have failed, it signals
\* the lock-timeout error instead of attempting again
C11_BoundedAttempts ==
    \A p \in Procs : attempts[p] <= MaxRetries

\* The lock file is the one that the crashed holder left, and its age exceeded
\* lockTimeout when the run, and so every call, started
Orphaned ==
    /\ lockFile # NoLock
    /\ lockFile.creator = 0
    /\ 0 - lockFile.time > LockTimeout

\* C12: a call of acquireLock that starts when the age of a crashed holder's
\* lock file exceeds lockTimeout does not fail with the lock-timeout error
\* while that lock file is still there, whatever the file contains
C12_StaleLockCleared ==
    \A p \in Procs : Orphaned => thrown[p] # "LockTimeout"

----------------------------------------------------------------------------
(* Properties of the local data file *)

\* The texts of the complete snapshots
Complete == {Snapshot(v) : v \in 0..nops}

\* C13: the text that a read returns, whatever the write did meanwhile, is
\* the complete text of one snapshot; and when a write has failed, the data
\* file holds the text it held when the write started
C13_AtomicWrite ==
    /\ rpc = "done" => rbuf \in Complete
    /\ (fpc = "done" /\ fthrown = "StorageError") =>
          /\ "data" \in DOMAIN files
          /\ inodes[files["data"]] = fbefore

\* A read has returned while a write had written a part of its text
C13_Witness ==
    /\ rpc = "done"
    /\ fpc = "chunk"
    /\ Len(inodes[files[writeTarget]]) = 1

----------------------------------------------------------------------------
(* Properties of the query operations *)

\* C14: right after a query operation, read(collection) returns the records
\* that it would have returned in place of the query operation, in the same
\* order, and the stored snapshot is the one before the operation
C14_QueriesDoNotMutate ==
    (qlast.op # "none" /\ qlast.seq = nops /\ qlast.at = now) =>
        readInto(cache, qlast.collection).items = qlast.before

\* C15: when select is given a where clause, with or without orderBy, limit,
\* offset and fields, every record it returns satisfies where
C15_SelectWhere ==
    (qlast.op = "select" /\ Has(qlast.arg, "where")) =>
        \A i \in 1..Len(qlast.ret) :
            evaluateWhereClause(qlast.ret[i], qlast.arg.where)

----------------------------------------------------------------------------
(* Properties of revert and of the record history *)

\* C16: when revertToCommit(T) has returned and no other write was committed
\* since it started, the text of the file at the head is the text at T
C16_RevertBytes ==
    (vpc = "done" /\ vthrown = "ok" /\ Len(log) = Len(vlog) + 1) =>
        log[Len(log)].content = vlog[vtarget].content

\* A revert to a commit whose text is not the head's has returned
C16_Witness ==
    /\ vpc = "done" /\ vthrown = "ok" /\ Len(log) = Len(vlog) + 1
    /\ vlog[vtarget].content # vlog[Len(vlog)].content

\* C17: when revertToCommit has returned, the commits that were in the log
\* when it started are still there, in their order and unchanged, and the
\* commits after them hold exactly one commit of the revert
C17_RevertAppends ==
    (vpc = "done" /\ vthrown = "ok") =>
        /\ Len(log) > Len(vlog)
        /\ SubSeq(log, 1, Len(vlog)) = vlog
        /\ Cardinality({i \in (Len(vlog) + 1)..Len(log) :
                           log[i].by = "revert"}) = 1

\* A revert has returned on a log of two commits or more
C17_Witness ==
    /\ vpc = "done" /\ vthrown = "ok"
    /\ Len(vlog) >= 2

\* C18: while revertToCommit is in its write (from its getFileInfo to its
\* commit), no mutating operation holds the lock between its acquireLock and
\* its releaseLock
C18_RevertHoldsLock ==
    vpc \in {"getFileInfo", "createOrUpdateFileContents"} => tpc = "idle"

\* C19: the entries that getRecordHistory returns are in chronological
\* order, the entry of the oldest commit first
C19_Chronological ==
    \A i, j \in 1..Len(hlast.ret) :
        i < j => hlast.ret[i].commit < hlast.ret[j].commit

\* Deep equality of two values: nested objects are equal when they have the
\* same keys with the same values
deepEqual(a, b) ==
    IF TypeOf(a) = "object" /\ TypeOf(b) = "object"
    THEN Range(a.pairs) = Range(b.pairs)
    ELSE a = b

\* Some field of one record differs from the other's
differs(r1, r2) ==
    \/ DOMAIN r1 # DOMAIN r2
    \/ \E k \in DOMAIN r1 : ~deepEqual(r1[k], r2[k])

\* The record with the id at a commit, Undefined when it is not there
recordAt(sha, collection, recordId) ==
    LET data == log[sha].content
        at == IF Has(data, collection)
              THEN findIndex(data[collection], recordId) ELSE 0
    IN  IF at = 0 THEN Undefined ELSE data[collection][at]

\* The inspected commits that contain the record of the last getRecordHistory
Containing ==
    {sha \in Range(hlast.commits) :
        recordAt(sha, hlast.collection, hlast.recordId) # Undefined}

\* The label that the entry of a commit is to carry
labelOf(sha) ==
    LET older == {o \in Containing : o < sha}
    IN  IF older = {} THEN "created"
        ELSE LET prev == CHOOSE o \in older : \A x \in older : x <= o
             IN  IF differs(recordAt(sha, hlast.collection, hlast.recordId),
                            recordAt(prev, hlast.collection, hlast.recordId))
                 THEN "updated" ELSE "unchanged"

\* C20: getRecordHistory returns one entry for each inspected commit that
\* contains the record and none for the others; the entry of the oldest is
\* labeled created, each later one updated when some field of the record
\* differs by value from the record of the commit before it that contains
\* the record, and unchanged otherwise
C20_Labels ==
    /\ {hlast.ret[i].commit : i \in 1..Len(hlast.ret)} = Containing
    /\ Len(hlast.ret) = Cardinality(Containing)
    /\ \A i \in 1..Len(hlast.ret) :
          hlast.ret[i].action = labelOf(hlast.ret[i].commit)

\* C21: when the record is in an inspected commit and not in the next newer
\* inspected commit, the result has an entry for that newer commit with
\* action 'deleted' and no record body
C21_DeletedEntry ==
    \A sha \in Range(hlast.commits) :
        (/\ sha - 1 \in Range(hlast.commits)
         /\ recordAt(sha - 1, hlast.collection, hlast.recordId) # Undefined
         /\ recordAt(sha, hlast.collection, hlast.recordId) = Undefined)
           => \E i \in 1..Len(hlast.ret) :
                 /\ hlast.ret[i].commit = sha
                 /\ hlast.ret[i].action = "deleted"
                 /\ Get(hlast.ret[i], "record") = Undefined

readAt(sha, collection, recordId) ==
    LET data == readDataFileOf(config, log[sha].content)
    IN  IF data.threw # "none" THEN Undefined
        ELSE IF ~Has(data.value, collection) THEN Undefined
        ELSE IF findIndex(data.value[collection], recordId) = 0 THEN Undefined
        ELSE data.value[collection][findIndex(data.value[collection], recordId)]

\* C23: a record that read() returns at an inspected version (through the
\* format codec, then decrypt) has its entry in the result of
\* getRecordHistory, whatever format and encryption key are configured
C23_HistoryDecodes ==
    \A sha \in Range(hlast.commits) :
        readAt(sha, hlast.collection, hlast.recordId) # Undefined
           => \E i \in 1..Len(hlast.ret) :
                 /\ hlast.ret[i].commit = sha
                 /\ hlast.ret[i].record
                      = readAt(sha, hlast.collection, hlast.recordId)

----------------------------------------------------------------------------
(* Properties of the codecs and of the envelope *)

\* C24: with an encryption key, decrypt of an envelope whose checksum field
\* is not the checksum of the decrypted content fails with the integrity
\* error, whatever the checksum field holds
C24_ChecksumVerified ==
    (cpc = "decrypted" /\ config.encryptionKey # Undefined)
       => (calculateChecksum(parse(cin.data.plain)) # Get(cin, "checksum")
              => cout.threw = "IntegrityError")

\* C25: parse of what serialize wrote for a Database is that Database, for
\* each format
C25_RoundTrip ==
    cpc = "parsed" => cout = Returned(cin)

----------------------------------------------------------------------------
(* The frame of the single operations *)

\* The collections other than c are the same in the two snapshots
OthersUnchanged(before, after, c) ==
    /\ DOMAIN after \ {c} = DOMAIN before \ {c}
    /\ \A d \in DOMAIN before \ {c} : after[d] = before[d]

\* The records of a collection in a snapshot, none when it is not there
RecordsOf(data, c) == IF Has(data, c) THEN data[c] ELSE <<>>

\* C26: in the snapshot that a successful create, update or delete wrote,
\* the created record is the last of its collection, the updated record is
\* where the target was, the deleted target alone is gone, and the other
\* records, their order and the other collections are as they were
C26_Frame ==
    LET c == last.collection
        before == RecordsOf(last.pre, c)
        after == RecordsOf(store, c)
        k == findIndex(before, last.id)
    IN  /\ (last.op = "create" /\ last.outcome = "ok")
              => /\ after = Append(before, stringifyItem(last.ret))
                 /\ OthersUnchanged(last.pre, store, c)
        /\ (last.op = "update" /\ last.outcome = "ok")
              => /\ Len(after) = Len(before)
                 /\ after[k] = stringifyItem(last.ret)
                 /\ \A i \in 1..Len(before) : i # k => after[i] = before[i]
                 /\ OthersUnchanged(last.pre, store, c)
        /\ (last.op = "delete" /\ last.outcome = "ok")
              => /\ Len(after) = Len(before) - 1
                 /\ \A i \in 1..Len(after) :
                       after[i] = before[IF i < k THEN i ELSE i + 1]
                 /\ Has(store, c)
                 /\ OthersUnchanged(last.pre, store, c)

\* A delete has removed the first of two or more records of a collection,
\* in a snapshot that holds another collection with a record
C26_Witness ==
    /\ last.op = "delete" /\ last.outcome = "ok"
    /\ Len(last.pre[last.collection]) >= 2
    /\ findIndex(last.pre[last.collection], last.id) = 1
    /\ \E d \in DOMAIN store \ {last.collection} : Len(store[d]) > 0

----------------------------------------------------------------------------
(* Properties of join and of the aggregations *)

\* The row holds the fields of the record, but for the one named `but`
HoldsRecord(row, record, but) ==
    \A f \in DOMAIN record \ {but} : Get(row, f) = record[f]

\* C27: an inner join returns one row per pair of a record of the first and
\* a record of the second collection with equal keys, and no other row; a
\* left join returns, besides, one row with a null companion for each record
\* of the first collection that has no match, a right join one row with a
\* null companion for each record of the second collection that has none
C27_Join ==
    qlast.op = "join" =>
        LET items1 == qlast.before
            items2 == qlast.arg.items2
            c1 == qlast.collection
            c2 == qlast.arg.collection2
            rows == qlast.ret
            pairs == { p \in (1..Len(items1)) \X (1..Len(items2)) :
                         Get(items1[p[1]], qlast.arg.joinKey1)
                           = Get(items2[p[2]], qlast.arg.joinKey2) }
            lone1 == { i \in 1..Len(items1) :
                         ~\E j \in 1..Len(items2) : <<i, j>> \in pairs }
            lone2 == { j \in 1..Len(items2) :
                         ~\E i \in 1..Len(items1) : <<i, j>> \in pairs }
        IN  /\ Len(rows) = Cardinality(pairs)
                  + (IF qlast.arg.joinType = "left"
                     THEN Cardinality(lone1) ELSE 0)
                  + (IF qlast.arg.joinType = "right"
                     THEN Cardinality(lone2) ELSE 0)
            /\ \A p \in pairs : \E n \in 1..Len(rows) :
                  /\ Get(rows[n], c2) = items2[p[2]]
                  /\ HoldsRecord(rows[n], items1[p[1]], c2)
            /\ qlast.arg.joinType = "left"
                  => \A i \in lone1 : \E n \in 1..Len(rows) :
                        /\ Get(rows[n], c2) = Null
                        /\ HoldsRecord(rows[n], items1[i], c2)
            /\ qlast.arg.joinType = "right"
                  => \A j \in lone2 : \E n \in 1..Len(rows) :
                        /\ Get(rows[n], c1) = Null
                        /\ HoldsRecord(rows[n], items2[j], c1)

\* The records of the list whose field k has the value
RecordsWith(items, value) ==
    { i \in 1..Len(items) : Get(items[i], "k") = value }

\* Every one of the records has a number in the field
AllNumbers(items, members, field) ==
    \A i \in members :
        TypeOf(Get(items[i], field)) = "number" /\ Has(items[i][field], "n")

\* The sum of the numbers that the records have in the field
RECURSIVE SumOf(_, _, _)
SumOf(items, members, field) ==
    IF members = {} THEN 0
    ELSE LET i == CHOOSE x \in members : TRUE
         IN  items[i][field].n + SumOf(items, members \ {i}, field)

\* The groups that a pipeline of one group stage has returned for the
\* records with a number in the field: the stage, the records, the group
GroupsOfNumbers ==
    IF qlast.op = "aggregate" /\ Len(qlast.arg) = 1
          /\ qlast.arg[1].type = "group"
    THEN { x \in [stage : {qlast.arg[1]},
                  members : { RecordsWith(qlast.before,
                                          Get(qlast.before[i], "k")) :
                                i \in 1..Len(qlast.before) },
                  g : 1..Len(qlast.ret)] :
             /\ \A i \in x.members :
                   Get(qlast.ret[x.g], "k") = Get(qlast.before[i], "k")
             /\ \A a \in Range(x.stage.aggregations) :
                   AllNumbers(qlast.before, x.members, a.field) }
    ELSE {}

\* C28: in the groups of a group stage, a min accumulator is the least and a
\* max accumulator is the greatest of the numbers that the records of the
\* group have in the field, zero and negative numbers included
C28_MinMaxAccumulator ==
    \A x \in GroupsOfNumbers : \A a \in Range(x.stage.aggregations) :
        LET values == { qlast.before[i][a.field].n : i \in x.members }
            result == Get(qlast.ret[x.g], a.name)
        IN  /\ a.type = "min"
                  => /\ TypeOf(result) = "number" /\ Has(result, "n")
                     /\ result.n \in values
                     /\ \A v \in values : result.n <= v
            /\ a.type = "max"
                  => /\ TypeOf(result) = "number" /\ Has(result, "n")
                     /\ result.n \in values
                     /\ \A v \in values : result.n >= v

\* C29: in the groups of a group stage, an avg accumulator is the sum of the
\* numbers that the records of the group have in the field divided by the
\* number of those records, whatever the other accumulators are
C29_AvgAccumulator ==
    \A x \in GroupsOfNumbers : \A a \in Range(x.stage.aggregations) :
        LET result == Get(qlast.ret[x.g], a.name)
        IN  a.type = "avg"
               => /\ TypeOf(result) = "number" /\ Has(result, "num")
                  /\ result.num * Cardinality(x.members)
                        = SumOf(qlast.before, x.members, a.field) * result.den

\* A numeric value: a number, or a text that is the numeral of one
Numeric(v) ==
    \/ TypeOf(v) = "number" /\ Has(v, "n")
    \/ TypeOf(v) = "string" /\ DOMAIN v = {"t", "text"} /\ Has(v.text, "n")

\* The number that a numeric value is
NumberOf(v) == IF TypeOf(v) = "number" THEN v.n ELSE v.text.n

\* The sum of the numeric values of the key in the records, the others and
\* the missing ones taken as 0
RECURSIVE SumNumeric(_, _, _)
SumNumeric(items, key, i) ==
    IF i > Len(items) THEN 0
    ELSE (IF Numeric(Get(items[i], key)) THEN NumberOf(items[i][key]) ELSE 0)
         + SumNumeric(items, key, i + 1)

\* C30: sum is the sum of the numeric values of the key, a non-numeric or
\* missing value counting as 0; average is that sum divided by the number
\* of records, and 0 for no record; min and max are the least and the
\* greatest of the numeric values, and null when there is none
C30_ScalarAggregations ==
    LET items == qlast.before
        key == qlast.arg
        ret == qlast.ret
        values == { NumberOf(items[i][key]) :
                      i \in { x \in 1..Len(items) :
                                Numeric(Get(items[x], key)) } }
    IN  /\ qlast.op = "sum" => ret = Num(SumNumeric(items, key, 1))
        /\ qlast.op = "average"
              => IF Len(items) = 0 THEN ret = Num(0)
                 ELSE /\ Has(ret, "num")
                      /\ ret.num * Len(items)
                            = SumNumeric(items, key, 1) * ret.den
        /\ qlast.op = "min"
              => IF values = {} THEN ret = Null
                 ELSE /\ Has(ret, "n") /\ ret.n \in values
                      /\ \A v \in values : ret.n <= v
        /\ qlast.op = "max"
              => IF values = {} THEN ret = Null
                 ELSE /\ Has(ret, "n") /\ ret.n \in values
                      /\ \A v \in values : ret.n >= v

----------------------------------------------------------------------------
(* Properties of the history statistics and of the timeline *)

\* C31: averageCommitsPerDay is, to the hundredth, totalCommits divided by
\* the number of days between the first and the last commit, and by 1 when
\* that is less than a day: totalCommits when all commits are of one day
C31_AveragePerDay ==
    slast.ret # Undefined =>
        LET total == Len(slast.dates)
            span == IF total = 0 THEN 0
                    ELSE slast.dates[1].iso - slast.dates[total].iso
            days == IF span <= TicksPerDay THEN <<1, 1>>
                    ELSE <<span, TicksPerDay>>
            perDayRet == Rat(slast.ret.averageCommitsPerDay)
            difference == perDayRet[1] * days[1] - total * days[2] * perDayRet[2]
        IN  /\ slast.ret.totalCommits = total
            /\ 200 * difference <= perDayRet[2] * days[1]
            /\ 200 * (0 - difference) <= perDayRet[2] * days[1]

\* The inspected commits whose text materializes, in the order of inspection
Materialized(commits) ==
    SelectSeq(commits, LAMBDA sha : isJSON(getFileAtCommit(log, sha)))

\* C32: the timeline has one entry for each inspected commit whose text
\* materializes, in the order of inspection, with the number of records that
\* the collection has at the commit
C32_TimelineEntries ==
    LET inspected == Materialized(tlast.commits)
    IN  /\ Len(tlast.ret) = Len(inspected)
        /\ \A i \in 1..Len(inspected) :
              /\ i <= Len(tlast.ret)
              /\ tlast.ret[i].commit = inspected[i]
              /\ tlast.ret[i].recordCount
                    = Len(RecordsOf(JSONparse(getFileAtCommit(log, inspected[i])),
                                    tlast.collection))

----------------------------------------------------------------------------
(* Properties of the lock's ownership *)

\* C33: an acquirer that judged a lock file stale removes, when it clears,
\* the lock file that is there, also when that is no longer the file it
\* judged; so two acquirers that judge the same lock file stale both clear
\* it, both create their own and both return success
C33_StaleClearingRace ==
    [][\A p \in Procs :
          (pc[p] = "clearStale" /\ pc'[p] = "writeFile") => lockFile' = NoLock]_vars

\* Two calls are in their critical sections at once, both after judging the
\* same lock file stale
C33_Witness ==
    \E p, q \in Procs :
        /\ p # q
        /\ InCriticalSection(p) /\ InCriticalSection(q)
        /\ judged[p] # NoLock /\ judged[p] = judged[q]

\* C34: a step that removes a lock file is the exit of the call that created
\* it, or the clearing by an acquirer of a lock file whose age exceeds
\* lockTimeout; no other call's step removes it
C34_LockOwnership ==
    [][(lockFile # NoLock /\ lockFile' = NoLock)
          => \E p \in Procs :
                \/ /\ pc[p] = "releaseLock" /\ pc'[p] = "done"
                   /\ lockFile.creator = p
                \/ /\ pc[p] = "clearStale" /\ pc'[p] = "writeFile"
                   /\ ~lockFile.nan /\ now - lockFile.time > LockTimeout]_vars

----------------------------------------------------------------------------
(* Properties of read and of its cache *)

\* The record matches the query: each of the query's values is the record's
\* value, or a predicate function that accepts it
Satisfies(item, query) ==
    \A k \in DOMAIN query :
        IF TypeOf(query[k]) = "function"
        THEN Get(item, k) \in query[k].accepts
        ELSE Get(item, k) = query[k]

\* C35: in a sequence of reads that no write interrupts, a read returns the
\* records of the collection that match its query, in their order, whatever
\* queries the reads before it had
C35_ReadMatchesQuery ==
    last.op = "read"
       => last.ret = SelectSeq(RecordsOf(readDataFile, last.collection),
                               LAMBDA item : Satisfies(item, last.arg))

\* C36: a read that starts when the updates and deletes before it have
\* returned, and no create has been called since the first read, returns the
\* records that the collection has in the store, not those it had before a
\* mutation
C36_ReadAfterMutation ==
    last.op = "read" => last.ret = RecordsOf(readDataFile, last.collection)


\* C37: a read returns the records that the newest commit of the file holds,
\* so that after a revert to T it returns the records of the snapshot at T and
\* not a result cached before the revert. A step that counts an operation and
\* leaves the revert where it is is a read.
C37_ReadAfterRevert ==
    [][(nops' # nops /\ vpc' = vpc /\ last'.op = "read") =>
          last'.ret = RecordsOf(IF log' = <<>> THEN EmptyObj
                                ELSE JSONparse(log'[Len(log')].content),
                                last'.collection)]_vars


\* The two records of the collection are in one group of the result
SameGroup(i, j) ==
    \E g \in 1..Len(qlast.ret) :
        {qlast.before[i].id, qlast.before[j].id}
            \subseteq Range(qlast.ret[g].ids.of)

\* C38: two records are in the same group of a group stage exactly when they
\* have equal values in every groupBy field, a missing field being different
\* from 0, '' and false
C38_GroupMembership ==
    qlast.op = "aggregate" /\ qlast.arg \in GroupByPipelines =>
        \A i, j \in 1..Len(qlast.before) :
            SameGroup(i, j) <=>
                \A f \in Range(qlast.arg[1].groupBy) :
                    Get(qlast.before[i], f) = Get(qlast.before[j], f)


\* C39: with an encryption key configured, the first operation on a store
\* that was just initialized, or that has no data file, is not rejected by
\* readDataFile: the empty snapshot is read as an empty Database
C39_FirstOperation ==
    (config.encryptionKey # Undefined /\ nops = 1) =>
        cout.threw \notin {"FormatError", "DecryptError", "IntegrityError"}


\* C40: whatever the limit, an entry of getRecordHistory is labeled created
\* only when its commit is the first of the log or the commit right before it
\* in the log does not contain the record
C40_CreatedAtBoundary ==
    \A i \in 1..Len(hlast.ret) :
        hlast.ret[i].action = "created" =>
            \/ hlast.ret[i].commit = 1
            \/ recordAt(hlast.ret[i].commit - 1, hlast.collection,
                        hlast.recordId) = Undefined

============================================================================
